---- MODULE Spec2Model ----
(***************************************************************************)
(* Streaming orchestration layer of realtime-ai-talk:                      *)
(*   server/ws_app.py      slice_text, iter_pcm16_frames, the websocket    *)
(*                         handlers ws_tts_stream, ws_tts and ws_rvc       *)
(*   server/server.py      the synchronous POST /tts endpoint              *)
(*   server/rvc_wrapper.py RVCConverter.convert / warm_bucket              *)
(*                                                                         *)
(* Text is a sequence of one-character strings.  One representative is     *)
(* kept for each class of character the code tells apart.                  *)
(***************************************************************************)
EXTENDS Integers, Sequences, FiniteSets, TLC

\* ------------------------------------------------------------------ text

NL == "\n"

\* the marks slice_text splits on: [。！？!?、,]
SplitMarks == {"!", ","}

\* what Python's str.strip() and the regex class \s remove
Spaces == {" ", NL}

\* the marks ws_tts_stream recognises at the end of the buffer: [。！？!?、,.\n]
EndMarks == SplitMarks \cup {".", NL}

RECURSIVE LStrip(_)
LStrip(t) ==
    IF t = <<>> THEN <<>>
    ELSE IF Head(t) \in Spaces THEN LStrip(Tail(t)) ELSE t

RECURSIVE RStrip(_)
RStrip(t) ==
    IF t = <<>> THEN <<>>
    ELSE IF t[Len(t)] \in Spaces THEN RStrip(SubSeq(t, 1, Len(t) - 1)) ELSE t

\* str.strip()
Strip(t) == RStrip(LStrip(t))

\* re.sub(r'[。！？!?、,\s]', '', piece)
RECURSIVE RemoveMarksAndSpaces(_)
RemoveMarksAndSpaces(t) ==
    IF t = <<>> THEN <<>>
    ELSE IF Head(t) \in (SplitMarks \cup Spaces)
         THEN RemoveMarksAndSpaces(Tail(t))
         ELSE <<Head(t)>> \o RemoveMarksAndSpaces(Tail(t))

\* re.split(r'([。！？!?、,])', s): text parts and marks alternate, the text
\* parts possibly empty; a mark is a part of its own.
RECURSIVE SplitParts(_, _)
SplitParts(t, cur) ==
    IF t = <<>> THEN <<cur>>
    ELSE IF Head(t) \in SplitMarks
         THEN <<cur, <<Head(t)>>>> \o SplitParts(Tail(t), <<>>)
         ELSE SplitParts(Tail(t), Append(cur, Head(t)))

\* `part in "。！？!?、,"` is a substring test: true of a single mark and of
\* the empty part (a text part never holds a mark).
IsMarkPart(part) ==
    \/ part = <<>>
    \/ Len(part) = 1 /\ part[1] \in SplitMarks

\* the first loop of slice_text: merged pieces, each mark glued to the text
\* before it, then the rest of the text.
RECURSIVE MergeParts(_, _, _)
MergeParts(parts, buf, merged) ==
    IF parts = <<>>
    THEN IF Strip(buf) # <<>> THEN Append(merged, Strip(buf)) ELSE merged
    ELSE LET b == buf \o Head(parts) IN
         IF IsMarkPart(Head(parts))
         THEN MergeParts(Tail(parts), <<>>,
                         IF Strip(b) # <<>> THEN Append(merged, Strip(b)) ELSE merged)
         ELSE MergeParts(Tail(parts), b, merged)

\* the second loop of slice_text keeps a piece iff something is left of it
\* once marks and whitespace are removed
KeepPiece(piece) == RemoveMarksAndSpaces(piece) # <<>>

RECURSIVE FilterPieces(_)
FilterPieces(ps) ==
    IF ps = <<>> THEN <<>>
    ELSE IF KeepPiece(Head(ps))
         THEN <<Head(ps)>> \o FilterPieces(Tail(ps))
         ELSE FilterPieces(Tail(ps))

slice_text(t) == FilterPieces(MergeParts(SplitParts(t, <<>>), <<>>, <<>>))

\* re.search(r'[。！？!?、,.\n]$', text_buffer): `$` matches at the end and
\* before a final newline, and the newline is itself in the class, so the
\* search succeeds iff the last character is in the class.
EndsInMark(t) == t # <<>> /\ t[Len(t)] \in EndMarks

\* ----------------------------------------------------------- bounds

\* inbound messages one session reads
MaxEvents == 3

\* pieces a session has taken when it reads its last text chunk
MaxSegs == 3

\* samples at 16 kHz of the short clips given to convert
MaxSamples == 33

\* samples by which the length of the pipeline's output misses exp_len
MaxSlack == 1

\* samples of the clips whose frames are written out byte by byte
MaxClip == 4

\* messages each of two concurrent sessions reads
MaxIsoEvents == 2

\* samples of the short clips given to snr_segmental
MaxSnrLen == 6

\* inbound messages the session of the text specification reads
MaxSegEvents == 4

\* samples of one converted clip (a scaled-down clip length)
MaxConv == 3

\* the output rate, scaled down: one 20 ms frame holds OutSr * 20 / 1000 samples
OutSr == 100

\* ------------------------------------------------------- configuration

DEFAULT_SPEAKER_ID == 2

Sessions == {"s1", "s2"}

NoTask == "-"

\* iter_pcm16_frames: n = int(sr * frame_ms / 1000)
FrameSamples(sr, frame_ms) == (sr * frame_ms) \div 1000

\* iter_pcm16_frames: the offsets range(0, len(pcm_f32), n) of the frames
FrameOffsets(len, n) == {i \in 0..(len - 1) : i % n = 0}

\* history: the number of frames iter_pcm16_frames yields for the clip of piece k
Due(k, len) == [seg |-> k, frames |-> Cardinality(FrameOffsets(len, FrameSamples(OutSr, 20)))]

VARIABLES
    rvcOk,      \* ws_app.rvc is not None
    running,    \* the task the event loop is running, between two awaits
    sess,       \* the state of each connection handler
    eng,        \* an RVCConverter and the call that is running on it
    gen,        \* a generator iter_pcm16_frames(pcm_f32, sr) and what it has yielded
    snr,        \* a call snr_segmental(y, sr) and what it returns
    cwd         \* the working directory of the process: os.getcwd()

vars == <<rvcOk, running, sess, eng, gen, snr, cwd>>

\* the directory the server was started in, and self.rvc_root
StartDir == "start"
RvcRoot == "rvc_root"

\* history: the utterance the running branch works for, counted by the end
\* messages read before the message it handles
Utt(c) == c.ends_in - (IF c.handler = "end" THEN 1 ELSE 0)

\* a message handed to the transport with ws.send_text / ws.send_bytes; ok is
\* false when the send raised because the peer is gone
Sent(s, ev, n, ok) ==
    [ev |-> ev, seg |-> sess[s].seg, utt |-> Utt(sess[s]), n |-> n, ok |-> ok]

InitSession(k) ==
    [kind |-> k,
     pc |-> IF k = "none" THEN "done" ELSE "accept",
     peer |-> "up",
     text_buffer |-> <<>>,
     speaker |-> DEFAULT_SPEAKER_ID,
     pieces |-> <<>>,        \* the pieces the running for loop has still to take
     handler |-> "-",        \* the branch of the message loop that is running
     text |-> <<>>,          \* ws_tts: the text of the session
     sent_any |-> FALSE,     \* ws_tts: a frame of the piece was sent
     audio_buffer |-> <<>>,  \* ws_rvc: the binary messages received, in order
     conv |-> 0,             \* conv.size of the piece being streamed
     off |-> 0,              \* offset of the next frame of conv
     seg |-> 0,              \* pieces taken by a for loop so far
     rvc_enable |-> TRUE,    \* tts_once: body.rvc_enable
     pcm |-> 0,              \* tts_once: pcm.size of the synthesized clip
     original_cwd |-> "-",   \* tts_once: original_cwd of the rvc.convert call of the thread
     inbound |-> 0,          \* messages read with ws.receive()
     out |-> <<>>,           \* every send, in order
     synth |-> <<>>,         \* every synthesis call, in order
     received |-> <<>>,      \* history: the text chunks of the utterance, joined
     closed |-> FALSE,       \* history: the utterance has been ended
     acc |-> <<>>,           \* history: the buffer the running branch sliced
     todo |-> <<>>,          \* history: the pieces the running branch gave its for loop
     seg0 |-> 0,             \* history: seg when the running branch started
     ends_in |-> 0,          \* history: end messages read
     failed |-> {},          \* history: the pieces of the branch whose processing raised
     conv_calls |-> <<>>,    \* history: the piece of every rvc.convert call of the branch
     due |-> <<>>,           \* history: the frames iter_pcm16_frames holds for each piece of the branch
     msg |-> "-",            \* history: the type of the last message read
     out0 |-> 0]             \* history: the sends made before the last message was read

\* handlers whose text buffer is one module-level variable
Upd_SharedBuffer(s, r) ==
    /\ sess' = [t \in Sessions |->
                    IF t = s THEN r ELSE [sess[t] EXCEPT !.text_buffer = r.text_buffer]]
    /\ UNCHANGED <<eng, gen, snr, cwd>>

\* the locals of a handler are those of its own coroutine: a step of the
\* handler of s changes the state of s alone; the rvc.convert call of a
\* coroutine returns before the loop runs another task, and the working
\* directory is then the one it found
Upd(s, r) == sess' = [sess EXCEPT ![s] = r] /\ UNCHANGED <<eng, gen, snr, cwd>>

\* a send raised because the peer is gone: `ev` was being sent.  The outer
\* handlers run: except WebSocketDisconnect passes, except Exception tries an
\* error signal under suppress(Exception).
SendFailed(s, c, ev, exc) ==
    [c EXCEPT !.pc = "done", !.conv = 0, !.off = 0, !.pieces = <<>>,
              !.out = IF exc = "WebSocketDisconnect"
                      THEN Append(c.out, Sent(s, ev, 0, FALSE))
                      ELSE Append(Append(c.out, Sent(s, ev, 0, FALSE)), Sent(s, "error", 0, FALSE))]

\* an exception that is no send failure reached except Exception: one error
\* signal is tried
Raised(s, c) ==
    [c EXCEPT !.pc = "done", !.out = Append(c.out, Sent(s, "error", 0, c.peer = "up"))]

\* ------------------------------------------------ ws_tts_stream

\* a session that starts to read without a ready signal
StreamAccept_Silent(s, exc) ==
    /\ sess[s].kind = "stream" /\ sess[s].pc = "accept" /\ running = NoTask
    /\ Upd(s, [sess[s] EXCEPT !.pc = "recv"])
    /\ UNCHANGED <<rvcOk, running>>

\* await ws.accept(), the rvc check and the ready signal
StreamAccept(s, exc) ==
    /\ sess[s].kind = "stream" /\ sess[s].pc = "accept" /\ running = NoTask
    /\ LET c == sess[s] IN
       IF c.peer = "gone"
       THEN Upd(s, SendFailed(s, c, IF rvcOk THEN "ready" ELSE "error", exc))
       ELSE IF ~rvcOk
       THEN Upd(s, [c EXCEPT !.pc = "done", !.out = Append(c.out, Sent(s, "error", 0, TRUE))])
       ELSE Upd(s, [c EXCEPT !.pc = "recv", !.out = Append(c.out, Sent(s, "ready", 0, TRUE))])
    /\ UNCHANGED <<rvcOk, running>>

\* history: the record of a branch starts again with each message read, that
\* of an utterance with the first message after its end
Fresh(c) ==
    [c EXCEPT !.received = IF c.closed THEN <<>> ELSE @,
              !.closed = FALSE,
              !.failed = {}, !.conv_calls = <<>>, !.due = <<>>,
              !.msg = "-", !.out0 = Len(c.out)]

\* message = await ws.receive() returned websocket.disconnect: break
StreamDisconnect(s) ==
    /\ sess[s].kind = "stream" /\ sess[s].pc = "recv" /\ running = NoTask
    /\ sess[s].peer = "gone"
    /\ Upd(s, [sess[s] EXCEPT !.pc = "done"])
    /\ UNCHANGED <<rvcOk, running>>

\* a segmenter that withholds nothing
TextProcessable_All(buf) == slice_text(buf)

\* a segmenter that keeps no remainder
TextRemainder_Clear(buf) == <<>>

\* a flush that withholds the last piece as a text chunk does
FinalPieces_Withhold(buf) ==
    IF slice_text(buf) = <<>> \/ Len(slice_text(buf)) = 1 THEN <<>>
    ELSE SubSeq(slice_text(buf), 1, Len(slice_text(buf)) - 1)

\* a segmenter that removes nothing from the buffer
TextRemainder_Keep(buf) == buf

\* the pieces a text chunk makes processable, and the buffer it leaves
TextProcessable(buf) ==
    LET pieces == slice_text(buf) IN
    IF pieces = <<>> THEN <<>>
    ELSE IF ~EndsInMark(buf)
         THEN IF Len(pieces) > 1 THEN SubSeq(pieces, 1, Len(pieces) - 1) ELSE <<>>
         ELSE pieces

TextRemainder(buf) ==
    LET pieces == slice_text(buf) IN
    IF pieces = <<>> THEN buf
    ELSE IF ~EndsInMark(buf)
         THEN IF Len(pieces) > 1 THEN pieces[Len(pieces)] ELSE buf
         ELSE <<>>

\* msg_type == "text": the chunk joins the buffer, which is sliced
StreamText(s, chunk) ==
    /\ sess[s].kind = "stream" /\ sess[s].pc = "recv" /\ running = NoTask
    /\ sess[s].peer = "up"
    /\ LET c == Fresh(sess[s])
           buf == c.text_buffer \o chunk
       IN Upd(s, [c EXCEPT !.inbound = @ + 1,
                           !.received = @ \o chunk,
                           !.text_buffer = TextRemainder(buf),
                           !.pieces = TextProcessable(buf),
                           !.acc = buf, !.todo = TextProcessable(buf), !.seg0 = c.seg,
                           !.handler = "text", !.msg = "text",
                           !.pc = "loop"])
    /\ running' = s
    /\ UNCHANGED rvcOk

\* final_text = text_buffer.strip(); slice_text(final_text) if final_text
FinalPieces(buf) ==
    LET final_text == Strip(buf) IN
    IF final_text # <<>> THEN slice_text(final_text) ELSE <<>>

\* msg_type == "end": the buffer is copied, cleared and sliced
StreamEnd(s) ==
    /\ sess[s].kind = "stream" /\ sess[s].pc = "recv" /\ running = NoTask
    /\ sess[s].peer = "up"
    /\ LET c == Fresh(sess[s])
           final_pieces == FinalPieces(c.text_buffer)
       IN Upd(s, [c EXCEPT !.inbound = @ + 1,
                           !.text_buffer = <<>>,
                           !.pieces = final_pieces,
                           !.acc = c.text_buffer, !.todo = final_pieces, !.seg0 = c.seg,
                           !.ends_in = @ + 1,
                           !.handler = "end", !.msg = "end",
                           !.pc = "loop"])
    /\ running' = s
    /\ UNCHANGED rvcOk

\* a speaker message that also drops the buffered text
StreamSpeaker_Flush(s, v) ==
    /\ sess[s].kind = "stream" /\ sess[s].pc = "recv" /\ running = NoTask
    /\ sess[s].peer = "up"
    /\ LET c == Fresh(sess[s]) IN
       Upd(s, [c EXCEPT !.inbound = @ + 1, !.msg = "speaker", !.text_buffer = <<>>,
                        !.speaker = IF v.int THEN v.val ELSE @])
    /\ UNCHANGED <<rvcOk, running>>

\* msg_type == "speaker": int(data.get("speaker", DEFAULT_SPEAKER_ID)); a value
\* int() rejects raises, which the message handler's except swallows
StreamSpeaker(s, v) ==
    /\ sess[s].kind = "stream" /\ sess[s].pc = "recv" /\ running = NoTask
    /\ sess[s].peer = "up"
    /\ LET c == Fresh(sess[s]) IN
       Upd(s, [c EXCEPT !.inbound = @ + 1, !.msg = "speaker",
                        !.speaker = IF v.int THEN v.val ELSE @])
    /\ UNCHANGED <<rvcOk, running>>

\* a text message that is not JSON, or JSON of another type, and a binary
\* message: json.loads raises into the handler's except, or no branch is taken
StreamOther(s) ==
    /\ sess[s].kind = "stream" /\ sess[s].pc = "recv" /\ running = NoTask
    /\ sess[s].peer = "up"
    /\ Upd(s, [Fresh(sess[s]) EXCEPT !.inbound = @ + 1, !.msg = "other"])
    /\ UNCHANGED <<rvcOk, running>>

\* the head of the for loop over the pieces: the next piece goes to synthesis
\* (session.post is a blocking call: the event loop stays with this task)
StreamNextPiece(s) ==
    /\ sess[s].kind = "stream" /\ sess[s].pc = "loop" /\ running = s
    /\ sess[s].pieces # <<>>
    /\ LET c == sess[s] IN
       Upd(s, [c EXCEPT !.pc = "synth",
                        !.seg = @ + 1,
                        !.synth = Append(@, [text |-> Head(c.pieces), speaker |-> c.speaker,
                                             seg |-> c.seg + 1, utt |-> Utt(c)]),
                        !.pieces = Tail(@)])
    /\ UNCHANGED <<rvcOk, running>>

\* a for loop that is followed by the end signal after every message
StreamLoopDone_AlwaysEnd(s) ==
    /\ sess[s].kind = "stream" /\ sess[s].pc = "loop" /\ running = s
    /\ sess[s].pieces = <<>>
    /\ Upd(s, [sess[s] EXCEPT !.pc = "endsig"])
    /\ running' = NoTask
    /\ UNCHANGED rvcOk

\* the for loop is over: back to await ws.receive(), or on to the end signal
StreamLoopDone(s) ==
    /\ sess[s].kind = "stream" /\ sess[s].pc = "loop" /\ running = s
    /\ sess[s].pieces = <<>>
    /\ Upd(s, [sess[s] EXCEPT !.pc = IF sess[s].handler = "end" THEN "endsig" ELSE "recv",
                              !.handler = IF sess[s].handler = "end" THEN "end" ELSE "-"])
    /\ running' = NoTask
    /\ UNCHANGED rvcOk

\* the two session.post calls and wav_bytes_to_float32 return: r is "fail" (an
\* exception, a timeout included), "empty" (pcm.size == 0) or "ok"
StreamSynthReturn(s, r) ==
    /\ sess[s].kind = "stream" /\ sess[s].pc = "synth" /\ running = s
    /\ LET c == sess[s] IN
       Upd(s, [c EXCEPT !.pc = IF r = "ok" THEN "convert" ELSE "loop",
                        !.failed = IF r = "fail" THEN @ \cup {c.seg} ELSE @,
                        !.conv_calls = IF r = "ok" THEN Append(@, c.seg) ELSE @])
    /\ UNCHANGED <<rvcOk, running>>

\* rvc.convert returns: it raised (~r.ok), or conv.size is r.n
StreamConvertReturn(s, r) ==
    /\ sess[s].kind = "stream" /\ sess[s].pc = "convert" /\ running = s
    /\ LET c == sess[s] IN
       IF ~r.ok \/ r.n = 0
       THEN Upd(s, [c EXCEPT !.pc = "loop", !.failed = IF r.ok THEN @ ELSE @ \cup {c.seg}])
            /\ UNCHANGED running
       ELSE Upd(s, [c EXCEPT !.pc = "frames", !.conv = r.n, !.off = 0,
                             !.due = Append(@, Due(c.seg, r.n))])
            /\ running' = NoTask
    /\ UNCHANGED rvcOk

\* await ws.send_bytes(frame) for the next frame of iter_pcm16_frames; a send
\* that raises ends the piece in the piece's except
StreamSendFrame(s) ==
    /\ sess[s].kind = "stream" /\ sess[s].pc = "frames" /\ running = NoTask
    /\ LET c == sess[s]
           n == FrameSamples(OutSr, 20)
           last == c.off + n >= c.conv
       IN IF c.peer = "gone"
          THEN Upd(s, [c EXCEPT !.pc = "loop", !.conv = 0, !.off = 0,
                                !.out = Append(@, Sent(s, "frame", n, FALSE))])
               /\ running' = s
          ELSE Upd(s, [c EXCEPT !.pc = IF last THEN "loop" ELSE "frames",
                                !.conv = IF last THEN 0 ELSE @,
                                !.off = IF last THEN 0 ELSE @ + n,
                                !.out = Append(@, Sent(s, "frame", n, TRUE))])
               /\ running' = IF last THEN s ELSE NoTask
    /\ UNCHANGED rvcOk

\* an end signal that closes the session, as that of ws_rvc does
StreamEndSignal_Close(s) ==
    /\ sess[s].kind = "stream" /\ sess[s].pc = "endsig" /\ running = NoTask
    /\ LET c == sess[s] IN
       Upd(s, [c EXCEPT !.pc = "done", !.handler = "-",
                        !.out = Append(@, Sent(s, "end", 0, c.peer = "up")),
                        !.closed = TRUE])
    /\ UNCHANGED <<rvcOk, running>>

\* await ws.send_text({"event": "end"}); when it raises, the message
\* handler's except swallows it and the loop goes on to ws.receive()
StreamEndSignal(s) ==
    /\ sess[s].kind = "stream" /\ sess[s].pc = "endsig" /\ running = NoTask
    /\ LET c == sess[s] IN
       Upd(s, [c EXCEPT !.pc = "recv", !.handler = "-",
                        !.out = Append(@, Sent(s, "end", 0, c.peer = "up")),
                        !.closed = TRUE])
    /\ UNCHANGED <<rvcOk, running>>

\* ------------------------------------------------------- ws_tts

\* pieces = [p.strip() for p in raw_pieces if p and p.strip()]
RECURSIVE StripPieces(_)
StripPieces(ps) ==
    IF ps = <<>> THEN <<>>
    ELSE IF Head(ps) # <<>> /\ Strip(Head(ps)) # <<>>
         THEN <<Strip(Head(ps))>> \o StripPieces(Tail(ps))
         ELSE StripPieces(Tail(ps))

\* from `if not text` to the head of the for loop, text and spk being known:
\* the end signal for no text, the rvc check, the ready signal, the slicing
OneStart(s, c, text, spk, exc) ==
    LET d == [c EXCEPT !.text = text, !.speaker = spk]
        pieces == StripPieces(slice_text(text))
    IN IF text = <<>>
       THEN IF c.peer = "gone" THEN SendFailed(s, d, "end", exc)
            ELSE [d EXCEPT !.pc = "done", !.out = Append(@, Sent(s, "end", 0, TRUE))]
       ELSE IF ~rvcOk
       THEN IF c.peer = "gone" THEN SendFailed(s, d, "error", exc)
            ELSE [d EXCEPT !.pc = "done", !.out = Append(@, Sent(s, "error", 0, TRUE))]
       ELSE IF c.peer = "gone" THEN SendFailed(s, d, "ready", exc)
       ELSE IF pieces = <<>>
       THEN [d EXCEPT !.pc = "done",
                      !.out = Append(Append(@, Sent(s, "ready", 0, TRUE)), Sent(s, "end", 0, TRUE))]
       ELSE [d EXCEPT !.pc = "loop", !.pieces = pieces, !.todo = pieces, !.acc = text,
                      !.handler = "oneshot",
                      !.out = Append(@, Sent(s, "ready", 0, TRUE))]

\* await ws.accept() and the query parameters q.text and q.speaker
OneAccept(s, q, exc) ==
    /\ sess[s].kind = "oneshot" /\ sess[s].pc = "accept" /\ running = NoTask
    /\ LET c == sess[s]
           text == Strip(q.text)
       IN IF ~q.speaker.int
          THEN Upd(s, Raised(s, c)) /\ UNCHANGED running
          ELSE IF text = <<>>
          THEN Upd(s, [c EXCEPT !.pc = "init", !.speaker = q.speaker.val]) /\ UNCHANGED running
          ELSE /\ Upd(s, OneStart(s, c, text, q.speaker.val, exc))
               /\ running' = IF sess'[s].pc = "loop" THEN s ELSE NoTask
    /\ UNCHANGED rvcOk

\* _recv_init_json: the first message, waited for 5 s.  m.kind is "timeout",
\* "empty" (neither text nor bytes), "bad-json", "not-dict" (JSON without
\* .get) or "json"
OneInit(s, m, exc) ==
    /\ sess[s].kind = "oneshot" /\ sess[s].pc = "init" /\ running = NoTask
    /\ LET c == sess[s]
           got == [c EXCEPT !.inbound = @ + 1]
       IN IF c.peer = "gone"
          THEN \* err = "disconnect": the error signal cannot be sent
               Upd(s, SendFailed(s, got, "error", exc)) /\ UNCHANGED running
          ELSE IF m.kind = "timeout"
          THEN Upd(s, [c EXCEPT !.pc = "done", !.out = Append(@, Sent(s, "error", 0, TRUE))])
               /\ UNCHANGED running
          ELSE IF m.kind \in {"empty", "bad-json"}
          THEN Upd(s, [got EXCEPT !.pc = "done", !.out = Append(@, Sent(s, "error", 0, TRUE))])
               /\ UNCHANGED running
          ELSE IF m.kind = "not-dict" \/ ~m.speaker.int
          THEN Upd(s, Raised(s, got)) /\ UNCHANGED running
          ELSE /\ Upd(s, OneStart(s, got, Strip(m.text), m.speaker.val, exc))
               /\ running' = IF sess'[s].pc = "loop" THEN s ELSE NoTask
    /\ UNCHANGED rvcOk

\* the head of the for loop: a part shorter than 2 is skipped, the others go
\* to synthesis
OneNextPiece(s) ==
    /\ sess[s].kind = "oneshot" /\ sess[s].pc = "loop" /\ running = s
    /\ sess[s].pieces # <<>>
    /\ LET c == sess[s]
           part == Head(c.pieces)
       IN IF Len(part) < 2
          THEN Upd(s, [c EXCEPT !.seg = @ + 1, !.pieces = Tail(@)])
          ELSE Upd(s, [c EXCEPT !.pc = "synth",
                                !.seg = @ + 1,
                                !.synth = Append(@, [text |-> part, speaker |-> c.speaker,
                                                     seg |-> c.seg + 1, utt |-> Utt(c)]),
                                !.pieces = Tail(@)])
    /\ UNCHANGED <<rvcOk, running>>

\* the for loop is over: on to the final end signal
OneLoopDone(s) ==
    /\ sess[s].kind = "oneshot" /\ sess[s].pc = "loop" /\ running = s
    /\ sess[s].pieces = <<>>
    /\ Upd(s, [sess[s] EXCEPT !.pc = "endsig"])
    /\ running' = NoTask
    /\ UNCHANGED rvcOk

\* synthesis returns: "fail" goes to the piece's except, "empty" continues
OneSynthReturn(s, r) ==
    /\ sess[s].kind = "oneshot" /\ sess[s].pc = "synth" /\ running = s
    /\ LET c == sess[s] IN
       Upd(s, [c EXCEPT !.pc = CASE r = "ok" -> "convert"
                                 [] r = "empty" -> "loop"
                                 [] OTHER -> "err",
                        !.failed = IF r = "fail" THEN @ \cup {c.seg} ELSE @,
                        !.conv_calls = IF r = "ok" THEN Append(@, c.seg) ELSE @])
    /\ running' = IF r = "fail" THEN NoTask ELSE s
    /\ UNCHANGED rvcOk

\* rvc.convert returns: a raise goes to the piece's except; otherwise the
\* frames of conv are streamed, after the try
OneConvertReturn(s, r) ==
    /\ sess[s].kind = "oneshot" /\ sess[s].pc = "convert" /\ running = s
    /\ LET c == sess[s] IN
       IF ~r.ok
       THEN Upd(s, [c EXCEPT !.pc = "err", !.failed = @ \cup {c.seg}])
       ELSE Upd(s, [c EXCEPT !.pc = "frames", !.conv = r.n, !.off = 0, !.sent_any = FALSE,
                             !.due = Append(@, Due(c.seg, r.n))])
    /\ running' = NoTask
    /\ UNCHANGED rvcOk

\* a piece's except that goes on with the next piece, as that of
\* ws_tts_stream does
OneError_Continue(s, exc) ==
    /\ sess[s].kind = "oneshot" /\ sess[s].pc = "err" /\ running = NoTask
    /\ LET c == sess[s] IN
       IF c.peer = "gone"
       THEN Upd(s, SendFailed(s, c, "error", exc)) /\ UNCHANGED running
       ELSE /\ Upd(s, [c EXCEPT !.pc = "loop",
                                !.out = Append(@, Sent(s, "error", 0, TRUE))])
            /\ running' = s
    /\ UNCHANGED rvcOk

\* the piece's except: the error signal, then break
OneError(s, exc) ==
    /\ sess[s].kind = "oneshot" /\ sess[s].pc = "err" /\ running = NoTask
    /\ LET c == sess[s] IN
       IF c.peer = "gone"
       THEN Upd(s, SendFailed(s, c, "error", exc))
       ELSE Upd(s, [c EXCEPT !.pc = "endsig", !.pieces = <<>>,
                             !.out = Append(@, Sent(s, "error", 0, TRUE))])
    /\ UNCHANGED <<rvcOk, running>>

\* await ws.send_bytes(frame) for the next frame of the piece
OneSendFrame(s, exc) ==
    /\ sess[s].kind = "oneshot" /\ sess[s].pc = "frames" /\ running = NoTask
    /\ sess[s].off < sess[s].conv
    /\ LET c == sess[s]
           n == FrameSamples(OutSr, 20)
       IN IF c.peer = "gone"
          THEN Upd(s, SendFailed(s, c, "frame", exc))
          ELSE Upd(s, [c EXCEPT !.off = @ + n, !.sent_any = TRUE,
                                !.out = Append(@, Sent(s, "frame", n, TRUE))])
    /\ UNCHANGED <<rvcOk, running>>

\* after the frames: 20 ms of silence when no frame was sent, and 50 ms of
\* silence when the piece is not the last one
OneAfterFrames(s, exc) ==
    /\ sess[s].kind = "oneshot" /\ sess[s].pc = "frames" /\ running = NoTask
    /\ sess[s].off >= sess[s].conv
    /\ LET c == sess[s]
           silence == IF c.sent_any THEN <<>>
                      ELSE <<Sent(s, "silence", (OutSr * 2) \div 100, TRUE)>>
           gap == IF c.pieces # <<>>
                  THEN <<Sent(s, "gap", (OutSr * 5) \div 100, TRUE)>> ELSE <<>>
       IN IF c.peer = "gone" /\ silence \o gap # <<>>
          THEN Upd(s, SendFailed(s, c, (silence \o gap)[1].ev, exc)) /\ UNCHANGED running
          ELSE Upd(s, [c EXCEPT !.pc = "loop", !.conv = 0, !.off = 0,
                                !.out = @ \o silence \o gap])
               /\ running' = s
    /\ UNCHANGED rvcOk

\* the final await ws.send_text({"event": "end"})
OneEndSignal(s, exc) ==
    /\ sess[s].kind = "oneshot" /\ sess[s].pc = "endsig" /\ running = NoTask
    /\ LET c == sess[s] IN
       IF c.peer = "gone"
       THEN Upd(s, SendFailed(s, c, "end", exc))
       ELSE Upd(s, [c EXCEPT !.pc = "done",
                             !.out = Append(@, Sent(s, "end", 0, TRUE))])
    /\ UNCHANGED <<rvcOk, running>>

\* ------------------------------------------------------- ws_rvc

\* await ws.accept(), the rvc check and the ready signal
RvcAccept(s, exc) ==
    /\ sess[s].kind = "rvc" /\ sess[s].pc = "accept" /\ running = NoTask
    /\ LET c == sess[s] IN
       IF c.peer = "gone"
       THEN Upd(s, SendFailed(s, c, IF rvcOk THEN "ready" ELSE "error", exc))
       ELSE IF ~rvcOk
       THEN Upd(s, [c EXCEPT !.pc = "done", !.out = Append(c.out, Sent(s, "error", 0, TRUE))])
       ELSE Upd(s, [c EXCEPT !.pc = "recv", !.out = Append(c.out, Sent(s, "ready", 0, TRUE))])
    /\ UNCHANGED <<rvcOk, running>>

\* message = await ws.receive() returned websocket.disconnect: break
RvcDisconnect(s) ==
    /\ sess[s].kind = "rvc" /\ sess[s].pc = "recv" /\ running = NoTask
    /\ sess[s].peer = "gone"
    /\ Upd(s, [sess[s] EXCEPT !.pc = "done"])
    /\ UNCHANGED <<rvcOk, running>>

\* a binary message: audio_buffer.extend(audio_chunk)
RvcBytes(s, chunk) ==
    /\ sess[s].kind = "rvc" /\ sess[s].pc = "recv" /\ running = NoTask
    /\ sess[s].peer = "up"
    /\ Upd(s, [Fresh(sess[s]) EXCEPT !.inbound = @ + 1, !.audio_buffer = Append(@, chunk)])
    /\ UNCHANGED <<rvcOk, running>>

\* a text message that is not JSON or is of another type: nothing happens
RvcOther(s) ==
    /\ sess[s].kind = "rvc" /\ sess[s].pc = "recv" /\ running = NoTask
    /\ sess[s].peer = "up"
    /\ Upd(s, [Fresh(sess[s]) EXCEPT !.inbound = @ + 1])
    /\ UNCHANGED <<rvcOk, running>>

RECURSIVE BufferBytes(_)
BufferBytes(b) == IF b = <<>> THEN 0 ELSE Head(b).bytes + BufferBytes(Tail(b))

\* np.max(np.abs(pcm_f32)) > 0
BufferLoud(b) == \E i \in 1..Len(b) : b[i].loud

\* an end message: the whole buffer is converted at once.  np.frombuffer
\* raises on an odd number of bytes, into the command's except; a buffer that
\* is empty or silent goes straight to the end signal.
RvcEnd(s) ==
    /\ sess[s].kind = "rvc" /\ sess[s].pc = "recv" /\ running = NoTask
    /\ sess[s].peer = "up"
    /\ LET c == [Fresh(sess[s]) EXCEPT !.inbound = @ + 1, !.seg0 = sess[s].seg, !.ends_in = @ + 1] IN
       IF BufferBytes(c.audio_buffer) % 2 = 1
       THEN Upd(s, c) /\ UNCHANGED running
       ELSE IF BufferBytes(c.audio_buffer) > 0 /\ BufferLoud(c.audio_buffer)
       THEN Upd(s, [c EXCEPT !.pc = "convert", !.seg = @ + 1,
                             !.conv_calls = Append(@, c.seg + 1)])
            /\ running' = s
       ELSE Upd(s, [c EXCEPT !.pc = "endsig"]) /\ UNCHANGED running
    /\ UNCHANGED rvcOk

\* rvc.convert returns: a raise goes to the command's except and the loop goes
\* on; r.loud is np.max(np.abs(conv)) > 0
RvcConvertReturn(s, r) ==
    /\ sess[s].kind = "rvc" /\ sess[s].pc = "convert" /\ running = s
    /\ LET c == sess[s] IN
       IF ~r.ok
       THEN Upd(s, [c EXCEPT !.pc = "recv", !.failed = @ \cup {c.seg}])
       ELSE IF r.n > 0 /\ r.loud
       THEN Upd(s, [c EXCEPT !.pc = "frames", !.conv = r.n, !.off = 0,
                             !.due = Append(@, Due(c.seg, r.n))])
       ELSE Upd(s, [c EXCEPT !.pc = "endsig"])
    /\ running' = NoTask
    /\ UNCHANGED rvcOk

\* await ws.send_bytes(frame); a send that raises goes to the command's
\* except and the loop goes on
RvcSendFrame(s) ==
    /\ sess[s].kind = "rvc" /\ sess[s].pc = "frames" /\ running = NoTask
    /\ LET c == sess[s]
           n == FrameSamples(OutSr, 20)
           last == c.off + n >= c.conv
       IN IF c.peer = "gone"
          THEN Upd(s, [c EXCEPT !.pc = "recv", !.conv = 0, !.off = 0,
                                !.out = Append(@, Sent(s, "frame", n, FALSE))])
          ELSE Upd(s, [c EXCEPT !.pc = IF last THEN "endsig" ELSE "frames",
                                !.conv = IF last THEN 0 ELSE @,
                                !.off = IF last THEN 0 ELSE @ + n,
                                !.out = Append(@, Sent(s, "frame", n, TRUE))])
    /\ UNCHANGED <<rvcOk, running>>

\* await ws.send_text({"event": "end"}), then break
RvcEndSignal(s) ==
    /\ sess[s].kind = "rvc" /\ sess[s].pc = "endsig" /\ running = NoTask
    /\ LET c == sess[s] IN
       IF c.peer = "gone"
       THEN Upd(s, [c EXCEPT !.pc = "recv", !.out = Append(@, Sent(s, "end", 0, FALSE))])
       ELSE Upd(s, [c EXCEPT !.pc = "done",
                             !.out = Append(@, Sent(s, "end", 0, TRUE))])
    /\ UNCHANGED <<rvcOk, running>>

\* ------------------------------------------------------- tts_once
\* (server.py) a def endpoint: every request runs in a thread of the server's
\* pool, beside the other requests; the engine is the module's one RVCConverter

\* POST /tts arrives: spk is body.speaker, or the default when it is None
TtsRequest(s, body) ==
    /\ sess[s].kind = "tts" /\ sess[s].pc = "accept"
    /\ Upd(s, [sess[s] EXCEPT !.pc = "synth",
                              !.inbound = @ + 1,
                              !.speaker = IF body.speaker.some THEN body.speaker.val
                                          ELSE DEFAULT_SPEAKER_ID,
                              !.rvc_enable = body.rvc_enable])
    /\ UNCHANGED <<rvcOk, running>>

\* the two requests.post calls return: an exception answers 500; with
\* rvc_enable off the synthesized wav is the answer
TtsSynthReturn(s, r) ==
    /\ sess[s].kind = "tts" /\ sess[s].pc = "synth"
    /\ LET c == sess[s] IN
       Upd(s, [c EXCEPT !.pc = CASE r = "fail" -> "done"
                                 [] ~c.rvc_enable -> "respond"
                                 [] OTHER -> "convert",
                        !.seg = @ + 1,
                        !.synth = Append(@, [text |-> c.text, speaker |-> c.speaker,
                                             seg |-> c.seg + 1, utt |-> Utt(c)]),
                        !.pcm = IF r = "ok" THEN 1 ELSE 0,
                        !.conv = IF r = "ok" THEN 1 ELSE 0,
                        !.failed = IF r = "fail" THEN @ \cup {c.seg + 1} ELSE @,
                        !.out = IF r = "fail" THEN Append(@, Sent(s, "error", 0, TRUE)) ELSE @])
    /\ UNCHANGED <<rvcOk, running>>

\* a convert that leaves the process in self.rvc_root
Restore_Stay(original_cwd) == RvcRoot

\* finally: os.chdir(original_cwd)
Restore(original_cwd) == original_cwd

\* rvc.convert up to the engine call: original_cwd = os.getcwd() and
\* os.chdir(self.rvc_root); an empty clip returns at the guard
TtsConvertBegin(s) ==
    /\ sess[s].kind = "tts" /\ sess[s].pc = "convert"
    /\ LET c == sess[s] IN
       IF c.pcm = 0
       THEN /\ sess' = [sess EXCEPT ![s] = [c EXCEPT !.pc = "respond", !.conv = 0,
                                                     !.original_cwd = cwd]]
            /\ cwd' = Restore(cwd)
       ELSE /\ sess' = [sess EXCEPT ![s] = [c EXCEPT !.pc = "engine",
                                                     !.conv_calls = Append(@, c.seg),
                                                     !.original_cwd = cwd]]
            /\ cwd' = RvcRoot
    /\ UNCHANGED <<rvcOk, running, eng, gen, snr>>

\* self.pipeline.pipeline(...) returns: it raised (500), or y.size is r.n; the
\* finally of convert runs in both cases
TtsEngineReturn(s, r) ==
    /\ sess[s].kind = "tts" /\ sess[s].pc = "engine"
    /\ LET c == sess[s] IN
       IF ~r.ok
       THEN sess' = [sess EXCEPT ![s] = [c EXCEPT !.pc = "done", !.failed = @ \cup {c.seg},
                                                  !.out = Append(@, Sent(s, "error", 0, TRUE))]]
       ELSE sess' = [sess EXCEPT ![s] = [c EXCEPT !.pc = "respond", !.conv = r.n]]
    /\ cwd' = Restore(sess[s].original_cwd)
    /\ UNCHANGED <<rvcOk, running, eng, gen, snr>>

\* the StreamingResponse with the wav
TtsRespond(s) ==
    /\ sess[s].kind = "tts" /\ sess[s].pc = "respond"
    /\ Upd(s, [sess[s] EXCEPT !.pc = "done", !.conv = 0,
                              !.out = Append(@, Sent(s, "wav", sess[s].conv, TRUE))])
    /\ UNCHANGED <<rvcOk, running>>

\* a call into the engine is in progress: the pipeline call of a request
\* thread, or the rvc.convert call the event loop is blocked in
InEngine(s) ==
    \/ sess[s].kind = "tts" /\ sess[s].pc = "engine"
    \/ sess[s].kind \in {"stream", "oneshot", "rvc"} /\ sess[s].pc = "convert"

\* the peer goes away
PeerGone(s) ==
    /\ sess[s].kind # "none" /\ sess[s].pc # "done" /\ sess[s].peer = "up"
    /\ Upd(s, [sess[s] EXCEPT !.peer = "gone"])
    /\ UNCHANGED <<rvcOk, running>>

\* ------------------------------------------------------- iter_pcm16_frames
\* A float32 sample is held in thousandths: 250 is 0.25, -1500 is -1.5.  A
\* frame is the sequence of the bytes of tobytes().

NoFrames == [pc |-> "off"]

PcmMax == 32767

\* np.clip(f, -1.0, 1.0)
Clip1(v) == IF v < -1000 THEN -1000 ELSE IF v > 1000 THEN 1000 ELSE v

\* (f * 32767.0).astype(np.int16): the product, truncated towards zero
Pcm16(v) ==
    LET x == Clip1(v) * PcmMax
    IN IF x >= 0 THEN x \div 1000 ELSE -((-x) \div 1000)

\* the two bytes of an int16, low byte first
Le16(v) ==
    LET u == (v + 65536) % 65536
    IN <<u % 256, u \div 256>>

\* tobytes() of an int16 array
ToBytes(f) == [b \in 1..(2 * Len(f)) |-> Le16(f[(b + 1) \div 2])[IF b % 2 = 1 THEN 1 ELSE 2]]

\* a generator that does not pad the last slice
PadFrame_None(f, n) == f

\* np.pad(f, (0, n - f.size), constant_values=0) when f.size < n
PadFrame(f, n) == IF Len(f) < n THEN f \o [j \in 1..(n - Len(f)) |-> 0] ELSE f

\* the generator object: nothing runs before the first next()
NewFrames(pcm_f32, sr) ==
    [pc |-> "iter", pcm_f32 |-> pcm_f32, sr |-> sr, n |-> FrameSamples(sr, 20),
     i |-> 0, frames |-> <<>>]

\* range(0, len(pcm_f32), n) raises ValueError for a step of 0
FramesRaise ==
    /\ gen.pc = "iter" /\ gen.n = 0
    /\ gen' = [gen EXCEPT !.pc = "raised"]
    /\ UNCHANGED <<rvcOk, running, sess, eng, snr, cwd>>

\* one pass of the loop: the slice at offset i is padded, clipped, converted
\* and yielded
FramesYield ==
    /\ gen.pc = "iter" /\ gen.n > 0 /\ gen.i < Len(gen.pcm_f32)
    /\ LET last == IF gen.i + gen.n < Len(gen.pcm_f32) THEN gen.i + gen.n ELSE Len(gen.pcm_f32)
           f == PadFrame(SubSeq(gen.pcm_f32, gen.i + 1, last), gen.n)
           q == [j \in 1..Len(f) |-> Pcm16(f[j])]
       IN gen' = [gen EXCEPT !.frames = Append(@, ToBytes(q)), !.i = @ + gen.n]
    /\ UNCHANGED <<rvcOk, running, sess, eng, snr, cwd>>

\* the range is exhausted: the generator stops
FramesStop ==
    /\ gen.pc = "iter" /\ gen.n > 0 /\ gen.i >= Len(gen.pcm_f32)
    /\ gen' = [gen EXCEPT !.pc = "done"]
    /\ UNCHANGED <<rvcOk, running, sess, eng, snr, cwd>>

\* ------------------------------------------------------- snr_segmental
\* A sample is held in tenths: 5 is 0.5, -30 is -3.0.  With L samples of sum S the sample
\* without its mean is (L * y[i] - S) / L; the power of a frame is held as
\* the sum of the squares of L * y[i] - S over the frame.  Every frame power
\* of the code is this sum times one positive factor (1 / n, 1 / L^2, the
\* tenths, the division by the peak), plus 1e-12.

NoSnr == [pc |-> "off"]

\* the sum of q[lo..hi], by halves
RECURSIVE SumRange(_, _, _)
SumRange(q, lo, hi) ==
    IF lo > hi THEN 0
    ELSE IF lo = hi THEN q[lo]
    ELSE SumRange(q, lo, (lo + hi) \div 2) + SumRange(q, (lo + hi) \div 2 + 1, hi)

SumSeq(q) == SumRange(q, 1, Len(q))

\* y - float(np.mean(y)), times len(y)
Centered(y) == LET total == SumSeq(y) IN [i \in 1..Len(y) |-> Len(y) * y[i] - total]

\* n = int(sr * win_ms / 1000)
WinSamples(sr, win_ms) == (sr * win_ms) \div 1000

\* range(0, len(y) - n + 1, hop)
WinOffsets(len, n, hop) == {i \in 0..(len - n) : i % hop = 0}

\* float(np.mean(f * f)) of the frame at offset i
FramePower(a, i, n) == SumSeq([k \in 1..n |-> a[i + k] * a[i + k]])

\* the frame powers, in the order of the offsets
FramePowers(y, n, hop) ==
    LET a == Centered(y)
    IN [j \in 1..Cardinality(WinOffsets(Len(y), n, hop)) |-> FramePower(a, (j - 1) * hop, n)]

\* the k-th smallest of the values of q
Kth(q, k) ==
    CHOOSE v \in {q[j] : j \in 1..Len(q)} :
        /\ Cardinality({j \in 1..Len(q) : q[j] < v}) < k
        /\ k <= Cardinality({j \in 1..Len(q) : q[j] <= v})

\* np.median(frames), times 2
Median2(q) ==
    IF Len(q) % 2 = 1 THEN 2 * Kth(q, (Len(q) + 1) \div 2)
    ELSE Kth(q, Len(q) \div 2) + Kth(q, Len(q) \div 2 + 1)

\* noise_mask = frames < med * thr_ratio with thr_ratio = 0.15.  For the
\* powers P the code compares c * P[j] + e < 0.15 * (c * med(P) + e), e = 1e-12:
\* as c * e is far below 1 and the powers are integers, that is
\* 40 * P[j] < 3 * (2 * med(P)).
NoiseMask(q) == {j \in 1..Len(q) : 40 * q[j] < 3 * Median2(q)}

\* frames.size < 4
TooFew(q) == Len(q) < 4

\* the call enters: the guards on y.size and n, and the frame loop, whose
\* range raises ValueError for a hop of 0
SnrFrames ==
    /\ snr.pc = "call"
    /\ LET n == WinSamples(snr.sr, 20)
           hop == n \div 2
       IN snr' = IF Len(snr.y) = 0 \/ n < 1
                 THEN [snr EXCEPT !.pc = "done", !.ret = "nan"]
                 ELSE IF hop = 0
                 THEN [snr EXCEPT !.pc = "done", !.ret = "ValueError"]
                 ELSE [snr EXCEPT !.pc = "frames", !.n = n, !.frames = FramePowers(snr.y, n, hop)]
    /\ UNCHANGED <<rvcOk, running, sess, eng, gen, cwd>>

\* after the loop: nan for fewer than 4 frames and for a mask that holds no
\* frame or every frame, else 10 * log10(signal_power / noise_power), the
\* logarithm of a quotient of two positive means
SnrReturn ==
    /\ snr.pc = "frames"
    /\ LET q == snr.frames IN
       snr' = [snr EXCEPT !.pc = "done",
                          !.ret = IF TooFew(q) THEN "nan"
                                  ELSE IF NoiseMask(q) = {} \/ NoiseMask(q) = 1..Len(q)
                                  THEN "nan"
                                  ELSE "number"]
    /\ UNCHANGED <<rvcOk, running, sess, eng, gen, cwd>>

\* ------------------------------------------------------- RVCConverter
\* (rvc_wrapper.py) one converter used by one caller at a time

\* the specifications of the handlers leave the converter out
NoConverter == [pc |-> "off"]

\* the rate of the pipeline: the 16000 of convert and of bucket_samples
InternalRate == 16000

\* a bucket size that ignores the switch and the sign of bucket_ms
BucketSamples_Always(bucketing, bucket_ms) == (InternalRate * bucket_ms) \div 1000

\* int(16000 * (bucket_ms / 1000.0)) if bucketing and bucket_ms > 0, else 0
BucketSamples(bucketing, bucket_ms) ==
    IF bucketing /\ bucket_ms > 0 THEN (InternalRate * bucket_ms) \div 1000 ELSE 0

\* a quantization that rounds down
bucket_len_Floor(c, n) ==
    IF ~c.bucketing \/ c.bucket_samples <= 0 THEN n
    ELSE (n \div c.bucket_samples) * c.bucket_samples

\* RVCConverter._bucket_len
bucket_len(c, n) ==
    IF ~c.bucketing \/ c.bucket_samples <= 0 THEN n
    ELSE ((n + c.bucket_samples - 1) \div c.bucket_samples) * c.bucket_samples

\* round() of Python for num / den >= 0: to the nearest integer, a half to the
\* even one
RoundHalfEven(num, den) ==
    LET q == num \div den
        r == num % den
    IN IF 2 * r < den THEN q
       ELSE IF 2 * r > den THEN q + 1
       ELSE IF q % 2 = 0 THEN q ELSE q + 1

\* out_sr = resample_sr if (resample_sr and resample_sr >= 16000) else tgt_sr
OutputRate(c) ==
    IF c.resample_sr # 0 /\ c.resample_sr >= InternalRate THEN c.resample_sr ELSE c.tgt_sr

\* exp_len = int(round(n_in * (out_sr / 16000.0)))
ExpectedLen(c, n_in) == RoundHalfEven(n_in * OutputRate(c), InternalRate)

\* the rate the empty-input return gives: resample_sr or tgt_sr
EmptyRate(c) == IF c.resample_sr # 0 THEN c.resample_sr ELSE c.tgt_sr

\* __init__: the fields of a converter built with these arguments
NewConverter(bucketing, bucket_ms, resample_sr, tgt_sr) ==
    [pc |-> "idle",
     bucketing |-> bucketing,
     bucket_ms |-> bucket_ms,
     bucket_samples |-> BucketSamples(bucketing, bucket_ms),
     resample_sr |-> resample_sr,
     tgt_sr |-> tgt_sr,
     warmed |-> {},          \* _warmed_buckets
     api |-> "-",            \* the method called last: convert, warm_bucket, or
                             \* resample for a convert that raised before n_in
     arg |-> 0,              \* its argument: the samples of the clip at 16 kHz, or nb_samples
     nb |-> 0,               \* convert: nb
     x |-> [len |-> 0, pad |-> 0],  \* convert: x.size, and the zeros np.pad put at its end
     exp_len |-> 0,          \* convert: exp_len
     original_cwd |-> "-",   \* convert: original_cwd
     calls |-> <<>>,         \* history: the pipeline calls of the method called last
     warmed0 |-> {},         \* history: _warmed_buckets when the method was called
     ret |-> [kind |-> "-", len |-> 0, sr |-> 0]]  \* how it returned

\* one call of self.pipeline.pipeline: a warm call gets zeros, an inference
\* call the clip padded with zeros to len samples
EngineCall(kind, len) == [kind |-> kind, len |-> len, zeros |-> kind = "warm"]

\* a convert that leaves the clip as it is
PadTo_None(n_in, nb) == [len |-> n_in, pad |-> 0]

\* if nb != n_in: x = np.pad(x, (0, nb - n_in), mode="constant")
PadTo(n_in, nb) ==
    IF nb # n_in THEN [len |-> n_in + (nb - n_in), pad |-> nb - n_in]
    ELSE [len |-> n_in, pad |-> 0]

\* a warm_bucket that warms a warmed length again
WarmSkipped_IgnoreWarmed(c, nb) == ~c.bucketing \/ nb <= 0

\* a warm_bucket without guard
WarmSkipped_Never(c, nb) == FALSE

\* the guard of warm_bucket: nothing is done without bucketing, for a length
\* <= 0, and for a length that is warmed
WarmSkipped(c, nb) == ~c.bucketing \/ nb <= 0 \/ nb \in c.warmed

\* a convert without guard
EmptyClip_Never(n) == FALSE

\* the guard of convert: pcm_float32_mono is None or its size is 0
EmptyClip(n) == n = 0

\* convert(pcm, sr) is called with a clip that holds n samples at 16 kHz: the
\* guard, the bucket length, and either the warm call or the inference call
ConvertCall(n) ==
    /\ eng.pc = "idle"
    /\ LET c == [eng EXCEPT !.api = "convert", !.arg = n, !.calls = <<>>,
                            !.x = [len |-> n, pad |-> 0],
                            !.original_cwd = cwd,
                            !.warmed0 = eng.warmed,
                            !.ret = [kind |-> "-", len |-> 0, sr |-> 0]]
           nb == bucket_len(c, n)
       IN IF EmptyClip(n)
          THEN eng' = [c EXCEPT !.nb = 0, !.exp_len = 0,
                                !.ret = [kind |-> "ok", len |-> 0, sr |-> EmptyRate(c)]]
          ELSE IF c.bucketing /\ c.bucket_samples > 0 /\ nb \notin c.warmed
                  /\ ~WarmSkipped(c, nb)
          THEN eng' = [c EXCEPT !.pc = "warm", !.nb = nb, !.exp_len = ExpectedLen(c, n),
                                !.calls = <<EngineCall("warm", nb)>>]
          ELSE eng' = [c EXCEPT !.pc = "infer", !.nb = nb, !.exp_len = ExpectedLen(c, n),
                                !.x = PadTo(n, nb),
                                !.calls = <<EngineCall("infer", PadTo(n, nb).len)>>]
    /\ cwd' = IF EmptyClip(n) THEN Restore(cwd) ELSE RvcRoot
    /\ UNCHANGED <<rvcOk, running, sess, gen, snr>>

\* convert(pcm, sr) is called with a clip of n > 0 samples, and the mean, the
\* astype or the resample of the clip raises: the method raises before n_in
\* is known and before any pipeline call; api tells this call, whose arg is
\* the size of the clip as given, from the calls that come to n_in
ResampleRaise(n) ==
    /\ eng.pc = "idle" /\ n > 0
    /\ eng' = [eng EXCEPT !.api = "resample", !.arg = n, !.calls = <<>>,
                          !.x = [len |-> n, pad |-> 0], !.nb = 0, !.exp_len = 0,
                          !.original_cwd = cwd,
                          !.warmed0 = eng.warmed,
                          !.ret = [kind |-> "raised", len |-> 0, sr |-> 0]]
    /\ cwd' = Restore(cwd)
    /\ UNCHANGED <<rvcOk, running, sess, gen, snr>>

\* warm_bucket(nb_samples) is called by the server
WarmBucketCall(nb) ==
    /\ eng.pc = "idle"
    /\ LET c == [eng EXCEPT !.api = "warm_bucket", !.arg = nb, !.calls = <<>>,
                            !.nb = nb, !.exp_len = 0, !.x = [len |-> 0, pad |-> 0],
                            !.warmed0 = eng.warmed,
                            !.ret = [kind |-> "-", len |-> 0, sr |-> 0]]
       IN IF WarmSkipped(c, nb)
          THEN eng' = [c EXCEPT !.ret = [kind |-> "ok", len |-> 0, sr |-> 0]]
          ELSE eng' = [c EXCEPT !.pc = "warm", !.calls = <<EngineCall("warm", nb)>>]
    /\ UNCHANGED <<rvcOk, running, sess, gen, snr, cwd>>

\* a warm call that records nothing
WarmReturn_Forget(ok) ==
    /\ eng.pc = "warm"
    /\ eng' = [eng EXCEPT !.pc = "idle",
                          !.ret = [kind |-> IF ok THEN "ok" ELSE "raised", len |-> 0, sr |-> 0]]
    /\ cwd' = IF eng.api = "convert" THEN Restore(eng.original_cwd) ELSE cwd
    /\ UNCHANGED <<rvcOk, running, sess, gen, snr>>

\* a warm call that records the length before the pipeline call is over
WarmReturn_RecordFirst(ok) ==
    /\ eng.pc = "warm"
    /\ IF ~ok
       THEN eng' = [eng EXCEPT !.pc = "idle", !.warmed = @ \cup {eng.nb},
                               !.ret = [kind |-> "raised", len |-> 0, sr |-> 0]]
       ELSE IF eng.api = "warm_bucket"
       THEN eng' = [eng EXCEPT !.pc = "idle", !.warmed = @ \cup {eng.nb},
                               !.ret = [kind |-> "ok", len |-> 0, sr |-> 0]]
       ELSE eng' = [eng EXCEPT !.pc = "infer", !.warmed = @ \cup {eng.nb},
                               !.x = PadTo(eng.arg, eng.nb),
                               !.calls = Append(@, EngineCall("infer", PadTo(eng.arg, eng.nb).len))]
    /\ cwd' = IF ~ok /\ eng.api = "convert" THEN Restore(eng.original_cwd) ELSE cwd
    /\ UNCHANGED <<rvcOk, running, sess, gen, snr>>

\* the pipeline call of warm_bucket returns: the length is recorded, and
\* convert goes on to its inference call; or it raised, and the method raises
\* (through the finally of convert, when convert made the call)
WarmReturn(ok) ==
    /\ eng.pc = "warm"
    /\ IF ~ok
       THEN eng' = [eng EXCEPT !.pc = "idle", !.ret = [kind |-> "raised", len |-> 0, sr |-> 0]]
       ELSE IF eng.api = "warm_bucket"
       THEN eng' = [eng EXCEPT !.pc = "idle", !.warmed = @ \cup {eng.nb},
                               !.ret = [kind |-> "ok", len |-> 0, sr |-> 0]]
       ELSE eng' = [eng EXCEPT !.pc = "infer", !.warmed = @ \cup {eng.nb},
                               !.x = PadTo(eng.arg, eng.nb),
                               !.calls = Append(@, EngineCall("infer", PadTo(eng.arg, eng.nb).len))]
    /\ cwd' = IF ~ok /\ eng.api = "convert" THEN Restore(eng.original_cwd) ELSE cwd
    /\ UNCHANGED <<rvcOk, running, sess, gen, snr>>

\* the crop and pad of convert: y of m samples becomes exp_len samples, and an
\* empty y stays empty
CropPad(m, exp_len) == IF m > 0 THEN exp_len ELSE 0

\* the inference call returns audio_opt of r.m samples, or raises; the
\* finally of convert runs in both cases
InferReturn(r) ==
    /\ eng.pc = "infer"
    /\ IF ~r.ok
       THEN eng' = [eng EXCEPT !.pc = "idle", !.ret = [kind |-> "raised", len |-> 0, sr |-> 0]]
       ELSE eng' = [eng EXCEPT !.pc = "idle",
                               !.ret = [kind |-> "ok", len |-> CropPad(r.m, eng.exp_len),
                                        sr |-> OutputRate(eng)]]
    /\ cwd' = Restore(eng.original_cwd)
    /\ UNCHANGED <<rvcOk, running, sess, gen, snr>>

\* ------------------------------------------------------ specifications

Alphabet == {"a", "!", ".", " ", NL}

\* the chunks of the text specification: every single character, and two
\* chunks holding several pieces
SegChunks ==
    {<<ch>> : ch \in Alphabet}
    \cup {<<"a", "!", "a">>, <<"a", ",", " ", "a", "!", " ", "a">>}

\* the "speaker" field of a speaker message: an integer, no field (the default),
\* or a value int() rejects
Speakers ==
    {[int |-> TRUE, val |-> 3], [int |-> TRUE, val |-> DEFAULT_SPEAKER_ID], [int |-> FALSE, val |-> 0]}
SynthResults == {"ok", "empty", "fail"}
ConvertResults == {[ok |-> FALSE, n |-> 0]} \cup {[ok |-> TRUE, n |-> n] : n \in 0..MaxConv}

\* the text specification: one streaming session, a usable engine, a peer that
\* stays, every text over the alphabet
InitSeg ==
    /\ rvcOk = TRUE
    /\ running = NoTask
    /\ sess = [s \in Sessions |-> InitSession(IF s = "s1" THEN "stream" ELSE "none")]
    /\ eng = NoConverter
    /\ gen = NoFrames
    /\ snr = NoSnr
    /\ cwd = StartDir

NextSeg ==
    \E s \in Sessions :
        \/ StreamAccept(s, "WebSocketDisconnect")
        \/ \E chunk \in SegChunks : sess[s].inbound < MaxSegEvents /\ StreamText(s, chunk)
        \/ sess[s].inbound < MaxSegEvents /\ StreamEnd(s)
        \/ StreamNextPiece(s)
        \/ StreamLoopDone(s)
        \/ StreamSynthReturn(s, "ok")
        \/ StreamConvertReturn(s, [ok |-> TRUE, n |-> 1])
        \/ StreamSendFrame(s)
        \/ StreamEndSignal(s)

SpecSeg == InitSeg /\ [][NextSeg]_vars

\* the session specification: one session of any of the three kinds, an
\* engine that may have failed at import, calls that may fail, a peer that may
\* go at any time
ProtoChunks == {<<"a", "!", "a", "!">>, <<"a", "!", "a">>}

OneTexts == {<<>>, <<"a">>, <<"a", "!", "a", "a">>, <<"a", "a", "!", "a", "!">>}

OneQueries ==
    {[text |-> t, speaker |-> v] :
        t \in {<<>>, <<"a", "a", "!", "a", "!">>},
        v \in {[int |-> TRUE, val |-> DEFAULT_SPEAKER_ID], [int |-> FALSE, val |-> 0]}}

InitMessages ==
    {[kind |-> k, text |-> <<>>, speaker |-> [int |-> TRUE, val |-> DEFAULT_SPEAKER_ID]] :
        k \in {"timeout", "empty", "bad-json", "not-dict"}}
    \cup {[kind |-> "json", text |-> t, speaker |-> v] :
            t \in OneTexts,
            v \in {[int |-> TRUE, val |-> 3], [int |-> FALSE, val |-> 0]}}

\* a binary message of ws_rvc: its length in bytes, and whether a sample is not 0
AudioChunks == {[bytes |-> 2, loud |-> TRUE], [bytes |-> 2, loud |-> FALSE], [bytes |-> 1, loud |-> TRUE]}

RvcResults ==
    {[ok |-> FALSE, n |-> 0, loud |-> FALSE]}
    \cup {[ok |-> TRUE, n |-> n, loud |-> l] : n \in 0..MaxConv, l \in BOOLEAN}

Exceptions == {"WebSocketDisconnect", "Exception"}

\* the bodies of POST /tts: speaker is None or an integer
TtsBodies ==
    {[speaker |-> v, rvc_enable |-> e] :
        v \in {[some |-> FALSE, val |-> 0], [some |-> TRUE, val |-> 3]},
        e \in BOOLEAN}

Init ==
    /\ rvcOk \in BOOLEAN
    /\ running = NoTask
    /\ \E k \in {"stream", "oneshot", "rvc"} :
          sess = [s \in Sessions |-> InitSession(IF s = "s1" THEN k ELSE "none")]
    /\ eng = NoConverter
    /\ gen = NoFrames
    /\ snr = NoSnr
    /\ cwd = StartDir

StreamNext(s) ==
    \/ \E exc \in Exceptions : StreamAccept(s, exc)
    \/ StreamDisconnect(s)
    \/ \E chunk \in ProtoChunks :
            sess[s].inbound < MaxEvents /\ sess[s].seg < MaxSegs /\ StreamText(s, chunk)
    \/ sess[s].inbound < MaxEvents /\ StreamEnd(s)
    \/ \E v \in Speakers : sess[s].inbound < MaxEvents /\ StreamSpeaker(s, v)
    \/ sess[s].inbound < MaxEvents /\ StreamOther(s)
    \/ StreamNextPiece(s)
    \/ StreamLoopDone(s)
    \/ \E r \in SynthResults : StreamSynthReturn(s, r)
    \/ \E r \in ConvertResults : StreamConvertReturn(s, r)
    \/ StreamSendFrame(s)
    \/ StreamEndSignal(s)

OneNext(s) ==
    \/ \E q \in OneQueries, exc \in Exceptions : OneAccept(s, q, exc)
    \/ \E m \in InitMessages, exc \in Exceptions : OneInit(s, m, exc)
    \/ OneNextPiece(s)
    \/ OneLoopDone(s)
    \/ \E r \in SynthResults : OneSynthReturn(s, r)
    \/ \E r \in ConvertResults : OneConvertReturn(s, r)
    \/ \E exc \in Exceptions : OneError(s, exc)
    \/ \E exc \in Exceptions : OneSendFrame(s, exc)
    \/ \E exc \in Exceptions : OneAfterFrames(s, exc)
    \/ \E exc \in Exceptions : OneEndSignal(s, exc)

RvcNext(s) ==
    \/ \E exc \in Exceptions : RvcAccept(s, exc)
    \/ RvcDisconnect(s)
    \/ \E chunk \in AudioChunks : sess[s].inbound < MaxEvents /\ RvcBytes(s, chunk)
    \/ sess[s].inbound < MaxEvents /\ RvcOther(s)
    \/ sess[s].inbound < MaxEvents /\ RvcEnd(s)
    \/ \E r \in RvcResults : RvcConvertReturn(s, r)
    \/ RvcSendFrame(s)
    \/ RvcEndSignal(s)

Next ==
    \E s \in Sessions :
        \/ StreamNext(s)
        \/ OneNext(s)
        \/ RvcNext(s)
        \/ PeerGone(s)

Spec == Init /\ [][Next]_vars

\* the request specification: server.py with two requests in the thread pool;
\* the module's RVCConverter was built, or the import had failed
InitTts ==
    /\ rvcOk = TRUE
    /\ running = NoTask
    /\ sess = [s \in Sessions |-> InitSession("tts")]
    /\ eng = NoConverter
    /\ gen = NoFrames
    /\ snr = NoSnr
    /\ cwd = StartDir

NextTts ==
    \E s \in Sessions :
        \/ \E body \in TtsBodies : TtsRequest(s, body)
        \/ \E r \in SynthResults : TtsSynthReturn(s, r)
        \/ TtsConvertBegin(s)
        \/ \E r \in ConvertResults : TtsEngineReturn(s, r)
        \/ TtsRespond(s)

SpecTts == InitTts /\ [][NextTts]_vars

\* the converter specification: one converter of any configuration, called
\* by one caller; the pipeline may raise and may return any length near exp_len
BucketMsChoices == {-1, 0, 1, 500}

ResampleRates == {0, 8000, 24000}

TargetRates == {40000}

ClipLens == (0..MaxSamples) \cup {7999, 8000, 8001, 16000}

WarmLens == {0, 16, 32, 16000}

\* the clips whose resampling raises
ResampleLens == {1, 17}

\* the lengths the pipeline may return for the running inference call
RawLens == {m \in {0} \cup ((eng.exp_len - MaxSlack)..(eng.exp_len + MaxSlack)) : m >= 0}

InitConv ==
    /\ rvcOk = TRUE
    /\ running = NoTask
    /\ sess = [s \in Sessions |-> InitSession("none")]
    /\ \E b \in BOOLEAN, ms \in BucketMsChoices, rs \in ResampleRates, ts \in TargetRates :
          eng = NewConverter(b, ms, rs, ts)
    /\ gen = NoFrames
    /\ snr = NoSnr
    /\ cwd = StartDir

NextConv ==
    \/ \E n \in ClipLens : ConvertCall(n)
    \/ \E n \in ResampleLens : ResampleRaise(n)
    \/ \E nb \in WarmLens : WarmBucketCall(nb)
    \/ \E ok \in BOOLEAN : WarmReturn(ok)
    \/ InferReturn([ok |-> FALSE, m |-> 0])
    \/ \E m \in RawLens : InferReturn([ok |-> TRUE, m |-> m])

SpecConv == InitConv /\ [][NextConv]_vars

\* the concurrency specification: two ws_tts_stream sessions on one event
\* loop; each reads text, speaker and end messages, its pieces may fail, its
\* peer may go
IsoChunks == {<<"a", "!">>, <<"a">>}

InitIso ==
    /\ rvcOk = TRUE
    /\ running = NoTask
    /\ sess = [s \in Sessions |-> InitSession("stream")]
    /\ eng = NoConverter
    /\ gen = NoFrames
    /\ snr = NoSnr
    /\ cwd = StartDir

NextIso ==
    \E s \in Sessions :
        \/ StreamAccept(s, "Exception")
        \/ StreamDisconnect(s)
        \/ \E chunk \in IsoChunks : sess[s].inbound < MaxIsoEvents /\ StreamText(s, chunk)
        \/ sess[s].inbound < MaxIsoEvents /\ StreamEnd(s)
        \/ sess[s].inbound < MaxIsoEvents /\ StreamSpeaker(s, [int |-> TRUE, val |-> 3])
        \/ StreamNextPiece(s)
        \/ StreamLoopDone(s)
        \/ \E r \in {"ok", "fail"} : StreamSynthReturn(s, r)
        \/ StreamConvertReturn(s, [ok |-> TRUE, n |-> 1])
        \/ StreamSendFrame(s)
        \/ StreamEndSignal(s)
        \/ PeerGone(s)

SpecIso == InitIso /\ [][NextIso]_vars

\* the SNR specification: one call on any short clip, or on one second of
\* zeros, at a rate that gives windows of 0, 1, 2 or 4 samples
SnrValues == {-30, 0, 5, 30}

SnrRates == {40, 50, 100, 200}

SnrClips(sr) ==
    UNION {[1..l -> SnrValues] : l \in 0..MaxSnrLen} \cup {[i \in 1..sr |-> 0]}

InitSnr ==
    /\ rvcOk = TRUE
    /\ running = NoTask
    /\ sess = [s \in Sessions |-> InitSession("none")]
    /\ eng = NoConverter
    /\ gen = NoFrames
    /\ \E sr \in SnrRates : \E y \in SnrClips(sr) :
          snr = [pc |-> "call", y |-> y, sr |-> sr, n |-> 0, frames |-> <<>>, ret |-> "-"]
    /\ cwd = StartDir

NextSnr ==
    \/ SnrFrames
    \/ SnrReturn

SpecSnr == InitSnr /\ [][NextSnr]_vars

\* the packetizer specification: one generator over any short clip, run to
\* its end
SampleValues == {-1500, -500, 0, 250, 1000}

FrameRates == {40, 50, 100, 150}

Clips == UNION {[1..l -> SampleValues] : l \in 0..MaxClip}

InitFrames ==
    /\ rvcOk = TRUE
    /\ running = NoTask
    /\ sess = [s \in Sessions |-> InitSession("none")]
    /\ eng = NoConverter
    /\ \E pcm_f32 \in Clips, sr \in FrameRates : gen = NewFrames(pcm_f32, sr)
    /\ snr = NoSnr
    /\ cwd = StartDir

NextFrames ==
    \/ FramesRaise
    \/ FramesYield
    \/ FramesStop

SpecFrames == InitFrames /\ [][NextFrames]_vars

\* ------------------------------------------------------------- claims

RECURSIVE Concat(_)
Concat(ps) == IF ps = <<>> THEN <<>> ELSE Head(ps) \o Concat(Tail(ps))

RECURSIVE NoSpaces(_)
NoSpaces(t) ==
    IF t = <<>> THEN <<>>
    ELSE IF Head(t) \in Spaces THEN NoSpaces(Tail(t)) ELSE <<Head(t)>> \o NoSpaces(Tail(t))

\* b is a with some characters of `drop` deleted, and nothing else changed
RECURSIVE DropsOnly(_, _, _)
DropsOnly(a, b, drop) ==
    IF a = <<>> THEN b = <<>>
    ELSE \/ b # <<>> /\ Head(a) = Head(b) /\ DropsOnly(Tail(a), Tail(b), drop)
         \/ Head(a) \in drop /\ DropsOnly(Tail(a), b, drop)

\* the texts of the synthesis calls of utterance u, in call order
RECURSIVE TextsOf(_, _)
TextsOf(log, u) ==
    IF log = <<>> THEN <<>>
    ELSE IF Head(log).utt = u
         THEN <<Head(log).text>> \o TextsOf(Tail(log), u)
         ELSE TextsOf(Tail(log), u)

\* the texts of the synthesis calls made since piece number k, in call order
RECURSIVE TextsSince(_, _)
TextsSince(log, k) ==
    IF log = <<>> THEN <<>>
    ELSE IF Head(log).seg > k
         THEN <<Head(log).text>> \o TextsSince(Tail(log), k)
         ELSE TextsSince(Tail(log), k)

\* an utterance is complete: the end signal was sent and no later message was read
UtteranceClosed(s) == sess[s].kind = "stream" /\ sess[s].closed

\* every send of event ev in the log
CountEv(log, ev) == Cardinality({i \in 1..Len(log) : log[i].ev = ev})

\* the frames of piece k handed to the transport, the failed send included
FrameSends(log, k) ==
    Cardinality({i \in 1..Len(log) : log[i].ev = "frame" /\ log[i].seg = k})

UtteranceText(s) == Concat(TextsOf(sess[s].synth, sess[s].ends_in - 1))

\* C6 as claimed: the segments of a complete utterance, joined, are the text
\* received for it, whitespace aside.
C6_ExactReconstruction ==
    \A s \in Sessions :
        UtteranceClosed(s) => NoSpaces(UtteranceText(s)) = NoSpaces(sess[s].received)

\* C6 amended: the segments of a complete utterance, joined, are the text
\* received for it with nothing but whitespace and split marks deleted; every
\* other character is there once, in the order received.
C6_ReconstructionUpToDiscardedMarks ==
    \A s \in Sessions :
        UtteranceClosed(s) =>
            /\ DropsOnly(sess[s].received, NoSpaces(UtteranceText(s)), Spaces \cup SplitMarks)
            /\ RemoveMarksAndSpaces(UtteranceText(s)) = RemoveMarksAndSpaces(sess[s].received)

\* a complete utterance of several chunks, cut inside a piece, that lost a mark
C6_Witness ==
    \E s \in Sessions :
        /\ UtteranceClosed(s)
        /\ sess[s].inbound >= 3
        /\ Len(TextsOf(sess[s].synth, sess[s].ends_in - 1)) >= 2
        /\ NoSpaces(UtteranceText(s)) # NoSpaces(sess[s].received)

\* C7: no text given to synthesis is empty or made only of whitespace and of
\* marks the session takes as terminating the buffer.
C7_NoPunctuationOnlySegment ==
    \A s \in Sessions :
        \A i \in 1..Len(sess[s].synth) :
            \E k \in 1..Len(sess[s].synth[i].text) :
                sess[s].synth[i].text[k] \notin (EndMarks \cup Spaces)

\* the branch of a text chunk is running on a buffer that holds pieces and
\* does not end in a terminating mark
WithheldCase(s) ==
    /\ sess[s].kind = "stream" /\ sess[s].handler = "text"
    /\ ~EndsInMark(sess[s].acc)
    /\ slice_text(sess[s].acc) # <<>>

LastPiece(buf) == slice_text(buf)[Len(slice_text(buf))]

PiecesBeforeLast(buf) == SubSeq(slice_text(buf), 1, Len(slice_text(buf)) - 1)

\* C8 as claimed: a text chunk that leaves the buffer without a terminating mark
\* emits the pieces before the last one, and the new buffer is the last piece.
C8_RemainderIsLastPiece ==
    \A s \in Sessions :
        WithheldCase(s) =>
            /\ sess[s].todo = PiecesBeforeLast(sess[s].acc)
            /\ sess[s].text_buffer = LastPiece(sess[s].acc)

\* C8 amended: the pieces before the last one are emitted, in order; with two
\* pieces or more the new buffer is the last piece, with one piece it is the
\* whole accumulated text unchanged; either way a forced flush of the new
\* buffer yields the last piece alone.
C8_LastPieceWithheld ==
    \A s \in Sessions :
        WithheldCase(s) =>
            /\ sess[s].todo = PiecesBeforeLast(sess[s].acc)
            /\ TextsSince(sess[s].synth, sess[s].seg0) \o sess[s].pieces = sess[s].todo
            /\ Len(slice_text(sess[s].acc)) > 1 => sess[s].text_buffer = LastPiece(sess[s].acc)
            /\ Len(slice_text(sess[s].acc)) = 1 => sess[s].text_buffer = sess[s].acc
            /\ slice_text(Strip(sess[s].text_buffer)) = <<LastPiece(sess[s].acc)>>

\* "Hello, world! Wait": two pieces were synthesized, the third is the buffer
C8_Witness ==
    \E s \in Sessions :
        /\ WithheldCase(s)
        /\ sess[s].acc = <<"a", ",", " ", "a", "!", " ", "a">>
        /\ sess[s].pc = "loop" /\ sess[s].pieces = <<>>
        /\ TextsSince(sess[s].synth, sess[s].seg0) = << <<"a", ",">>, <<"a", "!">> >>
        /\ sess[s].text_buffer = <<"a">>

\* C1: when the synthesis call of a piece starts, every frame of the clips of
\* the pieces before it has been handed to the transport.
C1_FramesBeforeNextSynthesis ==
    \A s \in Sessions :
        sess[s].pc = "synth" =>
            \A i \in 1..Len(sess[s].due) :
                FrameSends(sess[s].out, sess[s].due[i].seg) = sess[s].due[i].frames

\* C2: no two calls into the engine are in progress at the same time.
C2_EngineCallsExclusive ==
    Cardinality({s \in Sessions : InEngine(s)}) <= 1

\* C3: when the processing of a piece raised, no error signal is sent, and the
\* for loop ends only after it has taken every piece of the message.
C3_FailureDropsOnlySegment ==
    \A s \in Sessions :
        (/\ sess[s].kind \in {"stream", "oneshot"}
         /\ sess[s].failed # {}
         /\ \A i \in 1..Len(sess[s].out) : sess[s].out[i].ok) =>
            /\ CountEv(sess[s].out, "error") = 0
            /\ sess[s].pc \in {"endsig", "recv", "done"} =>
                    sess[s].seg - sess[s].seg0 = Len(sess[s].todo)

\* the signals and frames the peer was sent, the sends that raised left out
Delivered(log) == {i \in 1..Len(log) : log[i].ok}

\* C4: with no engine, a session reads no message and its peer is sent
\* nothing but one error signal, which is out when the session is over.
C4_UnusableEngineOneError ==
    \A s \in Sessions :
        (sess[s].kind \in {"stream", "oneshot", "rvc"} /\ ~rvcOk) =>
            /\ sess[s].inbound = 0
            /\ Cardinality(Delivered(sess[s].out)) <= 1
            /\ \A i \in 1..Len(sess[s].out) : sess[s].out[i].ev = "error"
            /\ (sess[s].pc = "done" /\ sess[s].peer = "up") =>
                    Cardinality(Delivered(sess[s].out)) = 1

\* C5: after a send that failed because the peer is gone, the session starts
\* no synthesis and no conversion for a later piece and sends no frame.
C5_NoWorkAfterFailedSend ==
    \A s \in Sessions :
        \A i \in 1..Len(sess[s].out) :
            ~sess[s].out[i].ok =>
                /\ \A j \in 1..Len(sess[s].synth) : sess[s].synth[j].seg <= sess[s].out[i].seg
                /\ \A j \in 1..Len(sess[s].conv_calls) : sess[s].conv_calls[j] <= sess[s].out[i].seg
                /\ \A j \in (i + 1)..Len(sess[s].out) : sess[s].out[j].ev # "frame"

\* the for loop of an end message is over
FlushDone(s) ==
    sess[s].kind = "stream" /\ sess[s].handler = "end" /\ sess[s].pc = "endsig"

\* C9: from an end message on the buffer is empty, and when its for loop is
\* over every piece of the text that was buffered has gone to synthesis, in
\* order, whether or not the processing of a piece raised; nothing of the
\* buffered text is left out but whitespace and discarded split marks.
C9_EndFlushesWholeBuffer ==
    \A s \in Sessions :
        /\ (sess[s].kind = "stream" /\ sess[s].handler = "end") => sess[s].text_buffer = <<>>
        /\ FlushDone(s) =>
            /\ TextsSince(sess[s].synth, sess[s].seg0) = slice_text(sess[s].acc)
            /\ DropsOnly(sess[s].acc,
                         NoSpaces(Concat(TextsSince(sess[s].synth, sess[s].seg0))),
                         Spaces \cup SplitMarks)

\* a flush of a piece without a closing mark, whose processing raised
C9_Witness ==
    \E s \in Sessions :
        /\ FlushDone(s)
        /\ sess[s].acc = <<"a">>
        /\ TextsSince(sess[s].synth, sess[s].seg0) = << <<"a">> >>
        /\ sess[s].failed # {}

\* the utterances whose end signal is due: those of the end messages handled
EndedUtterances(s) == 0..(Utt(sess[s]) - 1)

\* C10: every end message handled has one end signal and an end message being
\* handled has none yet; the frames of an utterance come before its end signal
\* and those of later utterances after it; after the end signal the session is
\* reading messages again, and ends only when the peer is gone.
C10_OneEndSignalPerEndEvent ==
    \A s \in Sessions :
        sess[s].kind = "stream" =>
            LET out == sess[s].out IN
            /\ \A u \in 0..MaxEvents :
                Cardinality({i \in 1..Len(out) : out[i].ev = "end" /\ out[i].utt = u})
                    = IF u \in EndedUtterances(s) THEN 1 ELSE 0
            /\ \A i, j \in 1..Len(out) :
                (out[i].ev = "frame" /\ out[j].ev = "end") =>
                    (i < j <=> out[i].utt <= out[j].utt)
            /\ sess[s].closed =>
                \/ sess[s].pc = "recv" /\ sess[s].text_buffer = <<>>
                \/ sess[s].pc = "done" /\ sess[s].peer = "gone"

\* frames, the end signal of their utterance, then frames of the next one
C10_Witness ==
    \E s \in Sessions :
        /\ sess[s].kind = "stream"
        /\ \E i, j, k \in 1..Len(sess[s].out) :
            /\ i < j /\ j < k
            /\ sess[s].out[i].ev = "frame" /\ sess[s].out[i].ok /\ sess[s].out[i].utt = 0
            /\ sess[s].out[j].ev = "end" /\ sess[s].out[j].ok
            /\ sess[s].out[k].ev = "frame" /\ sess[s].out[k].ok /\ sess[s].out[k].utt = 1

\* the events of the sends made since the last message was read
EventsSince(s) ==
    [i \in 1..(Len(sess[s].out) - sess[s].out0) |-> sess[s].out[sess[s].out0 + i].ev]

\* the events of every send of the session
EventsOut(s) == [i \in 1..Len(sess[s].out) |-> sess[s].out[i].ev]

\* the text chunks "a" and "!" and then an end message were read and handled
HiBangEnd(s) ==
    /\ sess[s].kind = "stream" /\ sess[s].closed
    /\ sess[s].inbound = 3 /\ sess[s].ends_in = 1
    /\ sess[s].received = <<"a", "!">>

\* C11: a text chunk causes no send but frames, and none at all when it leaves
\* the buffer without a terminating mark and with fewer than two pieces; the
\* chunks "a", "!" and an end message make the peer see one ready signal, the
\* frames of the one segment "a!", and one end signal.
C11_TextChunkSendsOnlyFrames ==
    \A s \in Sessions :
        /\ (sess[s].kind = "stream" /\ sess[s].msg = "text") =>
            /\ \A i \in 1..Len(EventsSince(s)) : EventsSince(s)[i] = "frame"
            /\ (~EndsInMark(sess[s].acc) /\ Len(slice_text(sess[s].acc)) < 2) =>
                    EventsSince(s) = <<>>
        /\ HiBangEnd(s) =>
            /\ EventsOut(s) = <<"ready", "frame", "end">>
            /\ sess[s].out[2].seg = 1
            /\ TextsOf(sess[s].synth, 0) = << <<"a", "!">> >>

\* the scenario has run to its end signal
C11_Witness ==
    \E s \in Sessions : HiBangEnd(s) /\ Len(sess[s].out) = 3 /\ sess[s].out[3].ok

SpeakerStep(s) ==
    /\ sess[s].kind = "stream"
    /\ sess'[s].inbound = sess[s].inbound + 1
    /\ sess'[s].msg = "speaker"

\* C13: a speaker message changes nothing but the speaker id: the text buffer
\* stays, no piece goes to synthesis or conversion, and nothing is sent.
C13_SpeakerChangesOnlySpeaker ==
    [][\A s \in Sessions :
        SpeakerStep(s) =>
            /\ sess'[s].text_buffer = sess[s].text_buffer
            /\ sess'[s].out = sess[s].out
            /\ sess'[s].synth = sess[s].synth
            /\ sess'[s].conv_calls = <<>>
            /\ sess'[s].seg = sess[s].seg
            /\ sess'[s].pc = "recv" /\ running' = running]_vars

\* a speaker message changed the speaker while text was buffered
C13_Witness ==
    \E s \in Sessions :
        /\ sess[s].kind = "stream" /\ sess[s].msg = "speaker"
        /\ sess[s].speaker # DEFAULT_SPEAKER_ID
        /\ sess[s].text_buffer # <<>>

\* the speaker ids the server has checked with the synthesis service: the one
\* it initialises at import; no handler checks another
ValidatedSpeakers == {DEFAULT_SPEAKER_ID}

\* C14: the speaker id a session stores, and every speaker id it synthesizes
\* with, is one that was validated as a known speaker.
C14_SpeakerValidated ==
    \A s \in Sessions :
        /\ sess[s].speaker \in ValidatedSpeakers
        /\ \A i \in 1..Len(sess[s].synth) : sess[s].synth[i].speaker \in ValidatedSpeakers

\* a convert call on a converter that quantizes: bucketing with a bucket size > 0
Quantizing == eng.pc # "off" /\ eng.api = "convert" /\ eng.bucketing /\ eng.bucket_samples > 0

\* C15: with bucketing and a bucket size b > 0 the quantized length q of n
\* samples is a multiple of b with n <= q < n + b, and quantizing q gives q.
C15_BucketLenQuantizes ==
    Quantizing =>
        LET b == eng.bucket_samples
            n == eng.arg
            q == bucket_len(eng, n)
        IN /\ q % b = 0
           /\ q >= n
           /\ q < n + b
           /\ bucket_len(eng, q) = q
           /\ n > 0 => eng.nb = q

\* 17 samples with buckets of 16 were given the bucket of 32
C15_Witness ==
    Quantizing /\ eng.bucket_samples = 16 /\ eng.arg = 17 /\ eng.nb = 32 /\ eng.pc = "infer"

\* C16: the quantized length is the length itself without bucketing, with a
\* bucket size <= 0 and for no samples; the bucket size is 0 without bucketing
\* and with bucket_ms <= 0.
C16_BucketLenIdentity ==
    eng.pc # "off" =>
        /\ (~eng.bucketing \/ eng.bucket_ms <= 0) => eng.bucket_samples = 0
        /\ eng.api = "convert" =>
            /\ (~eng.bucketing \/ eng.bucket_samples <= 0 \/ eng.arg = 0) =>
                    bucket_len(eng, eng.arg) = eng.arg
            /\ (~eng.bucketing \/ eng.bucket_samples <= 0) /\ eng.arg > 0 =>
                    eng.nb = eng.arg
        /\ bucket_len(eng, 0) = 0

\* bucketing is on with bucket_ms <= 0, and a clip went to inference unpadded
C16_Witness ==
    /\ eng.pc = "infer" /\ eng.api = "convert"
    /\ eng.bucketing /\ eng.bucket_ms <= 0
    /\ eng.arg = 17 /\ eng.nb = 17

\* C17: convert warms the bucket of its clip exactly when the bucket is not in
\* the warmed set; with buckets of 8000, 8001 samples have the bucket 16000,
\* which is warmed first when nothing is warmed, and which is in the warmed
\* set when warm_bucket(16000) has returned.
C17_NeedsWarmIffUnwarmed ==
    /\ (Quantizing /\ eng.arg > 0) =>
            (eng.calls[1].kind = "warm" <=> eng.nb \notin eng.warmed0)
    /\ (Quantizing /\ eng.bucket_samples = 8000 /\ eng.arg = 8001) =>
            /\ eng.nb = 16000
            /\ eng.warmed0 = {} => eng.calls[1] = EngineCall("warm", 16000)
    /\ (/\ eng.pc = "idle" /\ eng.api = "warm_bucket" /\ eng.bucket_samples = 8000
        /\ eng.arg = 16000 /\ eng.ret.kind = "ok") => 16000 \in eng.warmed

\* after warm_bucket(16000), a clip of 8001 samples went to inference unwarmed
C17_Witness ==
    /\ Quantizing /\ eng.bucket_samples = 8000 /\ eng.arg = 8001
    /\ eng.warmed0 = {16000}
    /\ eng.calls = <<EngineCall("infer", 16000)>>

\* warm_bucket has returned
WarmReturned == eng.pc = "idle" /\ eng.api = "warm_bucket" /\ eng.ret.kind = "ok"

\* C18 as claimed: every warm_bucket(nb) that returns has made one pipeline
\* call, with nb zeros, and nb is in the warmed set.
C18_WarmAlwaysOneCall ==
    WarmReturned =>
        /\ eng.calls = <<EngineCall("warm", eng.arg)>>
        /\ eng.arg \in eng.warmed

\* C18 amended: warm_bucket(nb) with bucketing, nb > 0 and nb not warmed makes
\* one pipeline call, with nb zeros, and records nb when the call has returned;
\* otherwise it makes no call and leaves the warmed set as it is; a call that
\* raises records nothing.
C18_WarmOneCallWhenUnwarmed ==
    (eng.pc # "off" /\ eng.api = "warm_bucket") =>
        /\ WarmReturned =>
            IF eng.bucketing /\ eng.arg > 0 /\ eng.arg \notin eng.warmed0
            THEN /\ eng.calls = <<EngineCall("warm", eng.arg)>>
                 /\ eng.calls[1].zeros /\ eng.calls[1].len = eng.arg
                 /\ eng.warmed = eng.warmed0 \cup {eng.arg}
            ELSE eng.calls = <<>> /\ eng.warmed = eng.warmed0
        /\ (eng.pc = "warm" \/ eng.ret.kind = "raised") =>
            /\ eng.calls = <<EngineCall("warm", eng.arg)>>
            /\ eng.warmed = eng.warmed0

\* warm_bucket(16) on a converter that had warmed 32 only
C18_Witness ==
    /\ WarmReturned /\ eng.arg = 16 /\ eng.warmed0 = {32}
    /\ eng.calls = <<EngineCall("warm", 16)>>
    /\ eng.warmed = {16, 32}

\* C19: the clip convert returns holds exp_len samples, whatever the length of
\* the pipeline's output.
C19_OutputLenExact ==
    (eng.pc = "idle" /\ eng.api = "convert" /\ eng.ret.kind = "ok") =>
        eng.ret.len = ExpectedLen(eng, eng.arg)

\* ceil(n / k)
CeilDiv(n, k) == (n + k - 1) \div k

\* C20: for a clip of n > 0 samples and k > 0 samples per frame the generator
\* yields ceil(n / k) frames of 2 * k bytes each; the bytes are the 16-bit
\* samples of the clip in their order, then zeros to the end of the last frame.
C20_FramesCarryClip ==
    (gen.pc \in {"iter", "done"} /\ Len(gen.pcm_f32) > 0 /\ gen.n > 0) =>
        /\ gen.pc = "done" => Len(gen.frames) = CeilDiv(Len(gen.pcm_f32), gen.n)
        /\ Len(gen.frames) <= CeilDiv(Len(gen.pcm_f32), gen.n)
        /\ \A j \in 1..Len(gen.frames) :
              /\ Len(gen.frames[j]) = 2 * gen.n
              /\ \A p \in 1..gen.n :
                    LET idx == (j - 1) * gen.n + p
                    IN <<gen.frames[j][2 * p - 1], gen.frames[j][2 * p]>> =
                           IF idx <= Len(gen.pcm_f32)
                           THEN Le16(Pcm16(gen.pcm_f32[idx]))
                           ELSE <<0, 0>>

\* 4 samples in frames of 3: two frames of 6 bytes, the second one padded
C20_Witness ==
    /\ gen.pc = "done" /\ gen.n = 3
    /\ gen.pcm_f32 = <<250, -1500, 1000, -500>>
    /\ gen.frames = <<<<255, 31, 1, 128, 255, 127>>, <<1, 192, 0, 0, 0, 0>>>>

\* C21: the generator over an empty clip yields one frame, of 2 * n zero bytes.
C21_EmptyClipOneSilentFrame ==
    (gen.pc = "done" /\ Len(gen.pcm_f32) = 0) =>
        /\ Len(gen.frames) = 1
        /\ gen.frames[1] = [b \in 1..(2 * gen.n) |-> 0]

\* the binary messages among the sends
Binary == {"frame", "silence", "gap"}

\* C22: between the frames of two pieces of one utterance a silence gap is
\* sent, and no gap is the last message before the end signal.
C22_GapBetweenSegments ==
    \A s \in Sessions :
        LET out == sess[s].out IN
        /\ \A i, j \in 1..Len(out) :
              (/\ i < j
               /\ out[i].ev = "frame" /\ out[j].ev = "frame"
               /\ out[i].utt = out[j].utt /\ out[i].seg # out[j].seg) =>
                    \E k \in (i + 1)..(j - 1) : out[k].ev = "gap"
        /\ \A k \in 1..(Len(out) - 1) :
              out[k].ev = "gap" => out[k + 1].ev # "end"

\* C23: every binary message sent holds the samples of one 20 ms frame.
C23_BinaryIsOneFrame ==
    \A s \in Sessions :
        \A k \in 1..Len(sess[s].out) :
            sess[s].out[k].ev \in Binary => sess[s].out[k].n = FrameSamples(OutSr, 20)

\* C24: when the handler of a message that is no JSON, or of no known type,
\* has returned, an error signal was sent, and the buffer and the speaker are
\* as they were.
C24_MalformedAnswered ==
    \A s \in Sessions :
        (sess[s].kind = "stream" /\ sess[s].msg = "other" /\ sess[s].pc = "recv") =>
            /\ Len(sess[s].out) > sess[s].out0
            /\ sess[s].out[sess[s].out0 + 1].ev = "error"

\* the handler of an end message of a conversion-only session has finished,
\* and the peer is there
RvcEndHandled(s) ==
    /\ sess[s].kind = "rvc" /\ sess[s].ends_in > 0
    /\ sess[s].pc \in {"recv", "done"} /\ sess[s].peer = "up"

\* C25: before the end message a conversion-only session makes no engine call
\* and sends no frame; when the end message is handled the buffer went through
\* one engine call, the last message sent is the end signal, and the session
\* is over.
C25_ConvertOnceAtEnd ==
    \A s \in Sessions :
        /\ (sess[s].kind = "rvc" /\ sess[s].ends_in = 0) =>
              /\ sess[s].seg = 0
              /\ \A k \in 1..Len(sess[s].out) : sess[s].out[k].ev # "frame"
        /\ RvcEndHandled(s) =>
              /\ sess[s].seg = 1
              /\ sess[s].pc = "done"
              /\ sess[s].out[Len(sess[s].out)].ev = "end"

\* C26: when the handler of an end message has finished, an end signal or an
\* error signal was sent for it and the session is over.
C26_EndAnswered ==
    \A s \in Sessions :
        RvcEndHandled(s) =>
            /\ sess[s].pc = "done"
            /\ \E k \in (sess[s].out0 + 1)..Len(sess[s].out) :
                  sess[s].out[k].ev \in {"end", "error"} /\ sess[s].out[k].ok

Windows(len, n) == IF len < n THEN 0 ELSE ((len - n) \div (n \div 2)) + 1

\* C28: snr_segmental returns not-a-number for a clip with fewer than 4
\* windows, for frames none of which is noise, for frames all of which are
\* noise and for one second of zeros; for every other clip it returns a number.
C28_SnrNanOnDegenerate ==
    snr.pc = "done" =>
        LET n == WinSamples(snr.sr, 20)
            few == n < 1 \/ Len(snr.y) < n \/ (n >= 2 /\ Windows(Len(snr.y), n) < 4)
            q == snr.frames
            none == NoiseMask(q) = {}
            all == NoiseMask(q) = 1..Len(q)
        IN /\ snr.ret \in {"nan", "number"}
           /\ few => snr.ret = "nan"
           /\ (\A i \in 1..Len(snr.y) : snr.y[i] = 0) => snr.ret = "nan"
           /\ (~few /\ (none \/ all)) => snr.ret = "nan"
           /\ (~few /\ ~none /\ ~all) => snr.ret = "number"

\* the inference call of a convert has been issued
InferIssued ==
    /\ eng.pc # "off" /\ eng.api = "convert"
    /\ eng.calls # <<>> /\ eng.calls[Len(eng.calls)].kind = "infer"

\* len is a multiple of b
MultipleOf(len, b) == \E k \in 0..len : len = k * b

\* C29 as claimed: with bucketing enabled the clip of every inference call
\* holds a multiple of the bucket size of samples, at least those of the
\* input; it has the bucket length that was checked and warmed, and it is the
\* input followed by zeros.
C29_InferenceClipIsBucket ==
    (InferIssued /\ eng.bucketing) =>
        LET call == eng.calls[Len(eng.calls)] IN
        /\ MultipleOf(call.len, eng.bucket_samples)
        /\ call.len >= eng.arg
        /\ call.len = eng.nb
        /\ call.len = eng.arg + eng.x.pad

\* C29 amended: the same with bucketing enabled and a bucket size > 0; the
\* bucket length is in the warmed set when the inference call is made, and a
\* warm call made by this convert had the same length.
C29_InferenceClipIsWarmedBucket ==
    (InferIssued /\ eng.bucketing /\ eng.bucket_samples > 0) =>
        LET call == eng.calls[Len(eng.calls)] IN
        /\ MultipleOf(call.len, eng.bucket_samples)
        /\ call.len >= eng.arg
        /\ call.len < eng.arg + eng.bucket_samples
        /\ call.len = eng.nb /\ call.len = bucket_len(eng, eng.arg)
        /\ call.len = eng.x.len /\ call.len = eng.arg + eng.x.pad /\ eng.x.pad >= 0
        /\ eng.nb \in eng.warmed
        /\ \A i \in 1..Len(eng.calls) : eng.calls[i].len = eng.nb

\* 17 samples with buckets of 16: warmed with 32 zeros, then inferred on the
\* clip and 15 zeros
C29_Witness ==
    /\ InferIssued /\ eng.bucketing /\ eng.bucket_samples = 16
    /\ eng.arg = 17 /\ eng.x = [len |-> 32, pad |-> 15]
    /\ eng.calls = <<EngineCall("warm", 32), EngineCall("infer", 32)>>

\* a successful warm call returns in this step
WarmSucceeds ==
    /\ eng.pc = "warm"
    /\ eng'.pc = "infer" \/ (eng'.pc = "idle" /\ eng'.ret.kind = "ok")

\* convert has returned or raised
ConvertOver == eng.pc = "idle" /\ eng.api = "convert"

\* C30 as claimed: the warmed set only grows, a successful warm call is made
\* for a length that is not warmed, a convert whose bucket is warmed makes one
\* pipeline call and a convert whose bucket is not warmed makes two, the warm
\* call and the inference call.
C30_WarmOncePerBucket ==
    [][/\ eng.pc # "off" => eng.warmed \subseteq eng'.warmed
       /\ WarmSucceeds => eng.nb \notin eng.warmed
       /\ ConvertOver' =>
             IF eng'.nb \in eng'.warmed0
             THEN Len(eng'.calls) = 1
             ELSE /\ Len(eng'.calls) = 2
                  /\ eng'.calls[1].kind = "warm" /\ eng'.calls[2].kind = "infer"]_vars

\* C30 amended: the warmed set only grows and a successful warm call is made
\* only for a length that is not warmed and records it; a convert of a
\* non-empty clip makes one pipeline call, the inference call, when its bucket
\* is warmed or the converter does not quantize; when its bucket is not warmed
\* it makes the warm call and then the inference call, or the warm call alone
\* if that raises; a convert of an empty clip makes no call.
C30_WarmOncePerBucketQuantizing ==
    [][/\ eng.pc # "off" => eng.warmed \subseteq eng'.warmed
       /\ WarmSucceeds => (eng.nb \notin eng.warmed /\ eng'.warmed = eng.warmed \cup {eng.nb})
       /\ (eng.pc # "off" /\ ~WarmSucceeds) => eng'.warmed = eng.warmed
       /\ ConvertOver' =>
             IF eng'.arg = 0 THEN eng'.calls = <<>>
             ELSE IF ~(eng'.bucketing /\ eng'.bucket_samples > 0) \/ eng'.nb \in eng'.warmed0
             THEN eng'.calls = <<EngineCall("infer", eng'.nb)>>
             ELSE IF eng'.nb \in eng'.warmed
             THEN eng'.calls = <<EngineCall("warm", eng'.nb), EngineCall("infer", eng'.nb)>>
             ELSE eng'.calls = <<EngineCall("warm", eng'.nb)>> /\ eng'.ret.kind = "raised"]_vars

\* two converts of 17 samples: the second found the bucket of 32 warmed and
\* made the inference call alone
C30_Witness ==
    /\ ConvertOver /\ eng.bucketing /\ eng.bucket_samples = 16 /\ eng.arg = 17
    /\ eng.warmed0 = {32} /\ eng.warmed = {32}
    /\ eng.calls = <<EngineCall("infer", 32)>>
    /\ eng.ret.kind = "ok"


\* a convert has raised in its warm call: the one pipeline call it made is
\* the warm call of its bucket
WarmRaised ==
    /\ eng.pc = "idle" /\ eng.api = "convert" /\ eng.ret.kind = "raised"
    /\ eng.calls # <<>> /\ eng.calls[Len(eng.calls)].kind = "warm"

\* C31: when the pipeline raises in the warm call of a convert, the convert
\* raises having made the warm call alone (no inference call), the set of
\* warmed lengths is the one the convert found and does not hold the bucket,
\* and the next convert for a clip of the same bucket makes the warm call again
\* before anything else.
C31_WarmFailureNotRecorded ==
    /\ [](WarmRaised =>
            /\ eng.calls = <<EngineCall("warm", eng.nb)>>
            /\ eng.warmed = eng.warmed0
            /\ eng.nb \notin eng.warmed)
    /\ [][(WarmRaised /\ eng'.api = "convert" /\ eng'.pc # "idle"
            /\ eng'.nb = eng.nb /\ eng'.ret.kind = "-")
          => (eng'.pc = "warm" /\ eng'.calls = <<EngineCall("warm", eng.nb)>>)]_vars

\* a convert for a clip of 17 samples raised in the warm call of the bucket of
\* 32 samples, which nothing had warmed
C31_Witness ==
    /\ WarmRaised /\ eng.arg = 17 /\ eng.nb = 32
    /\ eng.warmed = {} /\ cwd = StartDir


\* a call of convert is over: it returned or it raised
ConvertOut == eng.api \in {"convert", "resample"} /\ eng.pc = "idle"

\* C32: when a call of convert is over, by the return after the inference
\* call, by the return at the guard for an empty clip, or by an exception of
\* the resampling, of the warm call or of the inference call, the working
\* directory of the process is the one the call found; during its pipeline
\* calls it is self.rvc_root.
C32_CwdRestored ==
    /\ ConvertOut => cwd = eng.original_cwd /\ cwd = StartDir
    /\ (eng.api = "convert" /\ eng.pc \in {"warm", "infer"}) =>
            cwd = RvcRoot /\ eng.original_cwd = StartDir
    /\ eng.api = "warm_bucket" => cwd = StartDir

\* a convert has raised in its inference call, and the process is back in the
\* directory it was started in
C32_Witness ==
    /\ ConvertOut /\ eng.ret.kind = "raised" /\ eng.arg = 17
    /\ eng.calls # <<>> /\ eng.calls[Len(eng.calls)].kind = "infer"
    /\ eng.original_cwd = StartDir /\ cwd = StartDir


\* every request of POST /tts has been answered
AllAnswered == \A s \in Sessions : sess[s].kind = "tts" /\ sess[s].pc = "done"

\* C33: when the convert calls of two request threads of POST /tts overlap,
\* the working directory of the process after both have returned is the one
\* it was before either started.
C33_CwdRestoredAfterBoth == AllAnswered => cwd = StartDir


\* a call of convert with an empty clip is over
EmptyConverted == ConvertOut /\ eng.arg = 0

\* C34: convert of an empty clip makes no pipeline call, neither a warm call
\* nor an inference call, leaves the set of warmed lengths as it found it, and
\* returns an empty clip.
C34_EmptyClipNoEngine ==
    EmptyConverted =>
        /\ eng.calls = <<>>
        /\ eng.warmed = eng.warmed0
        /\ eng.ret.kind = "ok" /\ eng.ret.len = 0

\* a converter with buckets of 16 samples, the bucket of 16 warmed, has
\* converted an empty clip
C34_Witness ==
    /\ EmptyConverted /\ eng.bucketing /\ eng.bucket_samples = 16
    /\ eng.warmed = {16} /\ eng.ret.kind = "ok"


\* C35: the sample rate convert returns with an empty clip is the rate it
\* returns with a clip that is not empty, whatever resample_sr and tgt_sr of
\* the converter are.
C35_SameRateEmptyOrNot ==
    (ConvertOut /\ eng.ret.kind = "ok") => eng.ret.sr = OutputRate(eng)


\* the text of a streaming session that has a place: the segments given to
\* synthesis for the utterance, the pieces its for loop has still to take,
\* and the buffer, in this order
Placed(s) ==
    Concat(TextsOf(sess[s].synth, Utt(sess[s]))) \o Concat(sess[s].pieces)
        \o sess[s].text_buffer

\* a text chunk or an end message has been read, and its branch is running
\* or is over
Sliced(s) == sess[s].kind = "stream" /\ sess[s].handler \in {"text", "end"}

\* C36 as claimed: no character received is in two segments, and the text a
\* text chunk or an end message takes out of the buffer is the text of the
\* segments it emits, whitespace aside.
C36_RemovedIsEmitted ==
    \A s \in Sessions :
        Sliced(s) =>
            /\ DropsOnly(sess[s].received, NoSpaces(Placed(s)), Spaces \cup SplitMarks)
            /\ NoSpaces(sess[s].acc)
                    = NoSpaces(Concat(sess[s].todo) \o sess[s].text_buffer)

\* C36 amended: no character received is in two segments: the segments
\* synthesized for the utterance, the pieces waiting and the buffer, joined in
\* this order, are the text received with nothing but whitespace and split
\* marks deleted; and the text an event takes out of the buffer is the text of
\* the segments it emits together with whitespace and split marks that go to
\* no segment.
C36_NoTextSynthesizedTwice ==
    \A s \in Sessions :
        Sliced(s) =>
            /\ DropsOnly(sess[s].received, NoSpaces(Placed(s)), Spaces \cup SplitMarks)
            /\ RemoveMarksAndSpaces(Placed(s)) = RemoveMarksAndSpaces(sess[s].received)
            /\ DropsOnly(sess[s].acc,
                         NoSpaces(Concat(sess[s].todo) \o sess[s].text_buffer),
                         Spaces \cup SplitMarks)

\* "a, a! a" came in one chunk: the chunk had "a," and "a!" synthesized and
\* kept "a", which the end message has had synthesized, once
C36_Witness ==
    \E s \in Sessions :
        /\ Sliced(s) /\ sess[s].handler = "end" /\ sess[s].pieces = <<>>
        /\ sess[s].received = <<"a", ",", " ", "a", "!", " ", "a">>
        /\ TextsOf(sess[s].synth, Utt(sess[s])) = << <<"a", ",">>, <<"a", "!">>, <<"a">> >>
        /\ sess[s].acc = <<"a">>


\* a one-shot session has sent the ready signal, and no send of it has failed
ReadyAndUp(s) ==
    /\ sess[s].kind = "oneshot"
    /\ \E i \in 1..Len(sess[s].out) : sess[s].out[i].ev = "ready"
    /\ \A i \in 1..Len(sess[s].out) : sess[s].out[i].ok

====
